---- MODULE Spec2Model ----
(***************************************************************************)
(* Model of the @skadi/dynamo codec layer: composite-key templates         *)
(* (zdynamo.partitionKey / reverseTemplate), the query expression compiler *)
(* and pagination (QueryKeyBuilder), page streaming (stream().process) and *)
(* the error reporting of the public operation chains.                     *)
(***************************************************************************)
EXTENDS Integers, Sequences, FiniteSets, TLC

\* ------------------------------------------------------------------------
\* Bounds of the model
\* ------------------------------------------------------------------------
MaxLen == 2          \* longest string parameter value
MaxNum == 2          \* largest numeric parameter value
MaxCalls == 2        \* sk()/filter() calls on one builder
MaxVal == 2          \* distinct condition / filter values
MaxPages == 2        \* pages held by the store
MaxItems == 2        \* items of an ordinary page
MaxConc == 3         \* largest caller-supplied concurrency
MaxFetch == 3        \* page requests issued by one process() call
MaxExec == 3         \* exec() calls on one builder
MaxOps == 3          \* public operation steps recorded
MaxFields == 2       \* fields of one set() / update() call
MaxWrites == 2       \* writes collected by one transaction
MaxStr == 3          \* longest string read back from the store
MaxSteps == 3        \* for-loop index values followed below zero

None == "undefined"

\* ------------------------------------------------------------------------
\* Generic helpers
\* ------------------------------------------------------------------------
\* obj[k] = v on a JavaScript object
Put(m, k, v) == [x \in (DOMAIN m) \cup {k} |-> IF x = k THEN v ELSE m[x]]

SeqsUpTo(S, n) == UNION {[1..k -> S] : k \in 0..n}

\* ========================================================================
\* TemplateCodec
\* ========================================================================
Chars == {"a", "#", "1"}
Digits == <<"0", "1", "2", "3", "4", "5", "6", "7", "8", "9">>
DigitChars == {Digits[i] : i \in 1..10}

\* JavaScript values: a string (its characters), a number, or a Date (the
\* string it was parsed from)
Str(s) == [t |-> "string", s |-> s, n |-> 0]
Num(n) == [t |-> "number", s |-> <<>>, n |-> n]
DateOf(s) == [t |-> "date", s |-> s, n |-> 0]

\* template tokens: a literal character or a placeholder {name}
Lit(c) == [ph |-> FALSE, x |-> c]
Ph(n) == [ph |-> TRUE, x |-> n]

\* "a#{x}", "{x}#{y}", "{x}", "{x}{y}", "{x}#{x}", "{x}#"
Templates ==
  { <<Lit("a"), Lit("#"), Ph("x")>>,
    <<Ph("x"), Lit("#"), Ph("y")>>,
    <<Ph("x")>>,
    <<Ph("x"), Ph("y")>>,
    <<Ph("x"), Lit("#"), Ph("x")>>,
    <<Ph("x"), Lit("#")>> }

PhNames(T) == {T[i].x : i \in {j \in 1..Len(T) : T[j].ph}}

\* no two placeholders adjacent without literal text between them
Separated(T) == \A i \in 1..(Len(T) - 1) : ~(T[i].ph /\ T[i + 1].ph)

\* String(n) for a non-negative integer
RECURSIVE Dec(_)
Dec(n) == IF n < 10 THEN <<Digits[n + 1]>>
          ELSE Dec(n \div 10) \o <<Digits[(n % 10) + 1]>>

\* String(value)
String(val) == IF val.t = "number" THEN Dec(val.n) ELSE val.s

\* zod: z.string() / z.number() accept exactly their own type
Accepts(ty, val) == val.t = ty

\* z.object(params).parse(values): every declared parameter present and
\* accepted
paramSchemaParse(schema, obj) ==
  IF \A n \in DOMAIN schema : n \in DOMAIN obj /\ Accepts(schema[n], obj[n])
  THEN [ok |-> TRUE, value |-> [n \in DOMAIN schema |-> obj[n]]]
  ELSE [ok |-> FALSE, value |-> obj]

\* template.replace without the g flag: only the first placeholder is
\* replaced, the rest of the template stays as written
RECURSIVE templateReplaceOnce(_, _)
templateReplaceOnce(T, values) ==
  IF T = <<>> THEN <<>>
  ELSE IF Head(T).ph
       THEN String(values[Head(T).x])
              \o [i \in 1..(Len(T) - 1) |->
                    IF T[i + 1].ph THEN "{" \o T[i + 1].x \o "}" ELSE T[i + 1].x]
       ELSE <<Head(T).x>> \o templateReplaceOnce(Tail(T), values)

\* template.replace(/{(\w+)}/g, (_, key) => String(values[key]))
RECURSIVE templateReplace(_, _)
templateReplace(T, values) ==
  IF T = <<>> THEN <<>>
  ELSE (IF Head(T).ph
        THEN (IF Head(T).x \in DOMAIN values THEN String(values[Head(T).x])
              ELSE <<"u", "n", "d", "e", "f", "i", "n", "e", "d">>)
        ELSE <<Head(T).x>>) \o templateReplace(Tail(T), values)

\* zdynamo.partitionKey(template, params).parse(P)
partitionKey(T, schema, P) ==
  LET r == paramSchemaParse(schema, P)
  IN IF r.ok THEN [ok |-> TRUE, value |-> templateReplace(T, r.value)]
     ELSE [ok |-> FALSE, value |-> None]

\* date-fns parseISO accepts a bare century "YY" and a bare year "YYYY"
\* among the strings over Chars, and the string toISOString writes for
\* such a date; every other string is not a date
parseDateString(s) ==
  IF Len(s) \in {2, 4} /\ \A i \in 1..Len(s) : s[i] \in DigitChars
  THEN [valid |-> TRUE, date |-> DateOf(s)]
  ELSE IF Len(s) = 5 /\ s[5] = "-01-01T00:00:00.000Z"
            /\ \A i \in 1..4 : s[i] \in DigitChars
  THEN [valid |-> TRUE, date |-> DateOf(SubSeq(s, 1, 4))]
  ELSE [valid |-> FALSE, date |-> DateOf(<<>>)]

isDate(val) == val.t = "date" \/ (val.t = "string" /\ parseDateString(val.s).valid)

\* applied to the flat object of captured strings
unmarshallWithDateConversion(obj) ==
  [n \in DOMAIN obj |->
     IF isDate(obj[n])
     THEN (IF obj[n].t = "string" THEN parseDateString(obj[n].s).date ELSE obj[n])
     ELSE obj[n]]

\* the regular expression /^...$/ built by reverseTemplate: literals match
\* themselves, each placeholder is (.+?); the result is the list of captures
\* of the first match in backtracking order
NoMatch == [ok |-> FALSE, caps |-> <<>>]

\* the same expression without the closing $ anchor
RECURSIVE regexExecUnanchored(_, _)
regexExecUnanchored(T, s) ==
  IF T = <<>> THEN [ok |-> TRUE, caps |-> <<>>]
  ELSE IF ~Head(T).ph
       THEN (IF s # <<>> /\ Head(s) = Head(T).x THEN regexExecUnanchored(Tail(T), Tail(s))
             ELSE NoMatch)
       ELSE LET fits == {k \in 1..Len(s) :
                           regexExecUnanchored(Tail(T), SubSeq(s, k + 1, Len(s))).ok}
            IN IF fits = {} THEN NoMatch
               ELSE LET k == CHOOSE m \in fits : \A o \in fits : m <= o
                    IN [ok |-> TRUE,
                        caps |-> <<SubSeq(s, 1, k)>>
                           \o regexExecUnanchored(Tail(T), SubSeq(s, k + 1, Len(s))).caps]

RECURSIVE regexExec(_, _)
regexExec(T, s) ==
  IF T = <<>> THEN (IF s = <<>> THEN [ok |-> TRUE, caps |-> <<>>] ELSE NoMatch)
  ELSE IF ~Head(T).ph
       THEN (IF s # <<>> /\ Head(s) = Head(T).x THEN regexExec(Tail(T), Tail(s))
             ELSE NoMatch)
       ELSE LET fits == {k \in 1..Len(s) :
                           regexExec(Tail(T), SubSeq(s, k + 1, Len(s))).ok}
            IN IF fits = {} THEN NoMatch
               ELSE LET k == CHOOSE m \in fits : \A o \in fits : m <= o
                    IN [ok |-> TRUE,
                        caps |-> <<SubSeq(s, 1, k)>>
                           \o regexExec(Tail(T), SubSeq(s, k + 1, Len(s))).caps]

\* placeholders of the template in order (parts[].key)
RECURSIVE parts(_)
parts(T) == IF T = <<>> THEN <<>>
            ELSE (IF Head(T).ph THEN <<Head(T).x>> ELSE <<>>) \o parts(Tail(T))

\* rawObj[p.key] = res[i + 1], later occurrences overwrite earlier ones
rawObj(T, caps) ==
  LET ps == parts(T)
  IN [n \in PhNames(T) |->
        Str(caps[CHOOSE i \in 1..Len(ps) :
                   ps[i] = n /\ \A j \in 1..Len(ps) : ps[j] = n => j <= i])]

EmptyObj == [n \in {} |-> None]
Undefined == [defined |-> FALSE, obj |-> EmptyObj]

reverseTemplate(s, T, schema) ==
  LET res == regexExec(T, s)
  IN IF ~res.ok THEN Undefined
     ELSE LET coerced == unmarshallWithDateConversion(rawObj(T, res.caps))
          IN [defined |-> TRUE, obj |-> paramSchemaParse(schema, coerced).value]

\* ------------------------------------------------------------------------
\* State of one encode / decode round
\* ------------------------------------------------------------------------
VARIABLES tmpl, schema, params, keyStr, decoded, cpc, codecError, fieldValue

codecVars == <<tmpl, schema, params, keyStr, decoded, cpc, codecError, fieldValue>>

Strings == SeqsUpTo(Chars, MaxLen)
ParamTypes == {"string", "number"}
ValuesOf(ty) == IF ty = "string" THEN {Str(s) : s \in Strings}
                ELSE {Num(n) : n \in 0..MaxNum}

\* an entity field after deserialize: a string, a Date, or a plain object
StringField(s) == [kind |-> "string", s |-> s, obj |-> EmptyObj]
DateField(s) == [kind |-> "date", s |-> s, obj |-> EmptyObj]
ObjectField(o) == [kind |-> "object", s |-> <<>>, obj |-> o]

\* deserialize(data, schema) seen on one field that carries key-template
\* metadata and holds the string s: rehydrateKeysWithSchema, then
\* unmarshallWithDateConversion
deserialize(s, T, sch) ==
  LET obj == reverseTemplate(s, T, sch)
  IN IF obj.defined THEN ObjectField(unmarshallWithDateConversion(obj.obj))
     ELSE IF isDate(Str(s)) THEN DateField(parseDateString(s).date.s)
     ELSE StringField(s)

InitCodec ==
  /\ tmpl \in Templates
  /\ schema \in [PhNames(tmpl) -> ParamTypes]
  /\ params \in {p \in [PhNames(tmpl) -> UNION {ValuesOf(ty) : ty \in ParamTypes}] :
                   \A n \in PhNames(tmpl) : Accepts(schema[n], p[n])}
  /\ keyStr = <<>>
  /\ decoded = Undefined
  /\ cpc = "init"
  /\ codecError = ""
  /\ fieldValue = StringField(<<>>)

\* schema.shape.pk.parse(params): the key string, or the ZodError of the
\* parameter object
Encode ==
  /\ cpc = "init"
  /\ IF partitionKey(tmpl, schema, params).ok
     THEN /\ keyStr' = partitionKey(tmpl, schema, params).value
          /\ cpc' = "encoded"
          /\ codecError' = codecError
     ELSE /\ keyStr' = keyStr
          /\ cpc' = "threw"
          /\ codecError' = "ZodError"
  /\ UNCHANGED <<tmpl, schema, params, decoded, fieldValue>>

\* rehydrateKeysWithSchema on the stored key string
Decode ==
  /\ cpc = "encoded"
  /\ decoded' = reverseTemplate(keyStr, tmpl, schema)
  /\ cpc' = "decoded"
  /\ UNCHANGED <<tmpl, schema, params, keyStr, codecError, fieldValue>>

\* deserialize of an item read from the store
Deserialize ==
  /\ cpc = "stored"
  /\ decoded' = reverseTemplate(keyStr, tmpl, schema)
  /\ fieldValue' = deserialize(keyStr, tmpl, schema)
  /\ cpc' = "deserialized"
  /\ UNCHANGED <<tmpl, schema, params, keyStr, codecError>>

\* ========================================================================
\* QueryKeyBuilder: expression compiler
\* ========================================================================
\* JavaScript values handled by the builder: a scalar, an array of scalars,
\* or undefined (a scalar without content)
Sc(v) == [arr |-> FALSE, xs |-> <<v>>]
Arr(vs) == [arr |-> TRUE, xs |-> vs]
Undef == [arr |-> FALSE, xs |-> <<>>]

Values == {Sc(v) : v \in 1..MaxVal}
\* the encoded partition key produced by schema.shape.pk.parse
PkValue == Sc(0)

SkOperators == {"=", ">", "between", "begins_with"}
FilterOperators == {"=", ">", "begins_with", "contains", "IN"}
FilterFields == {"pk", "sk", "f", "f_0"}
InLists == {Arr(<<1>>), Arr(<<MaxVal, 1>>)}

\* GSI definitions of the connected table; sortKey "" is an absent sortKey
\* and indexName "" an absent indexName (the field is optional)
NoGsi == [set |-> FALSE, indexName |-> "", alias |-> "", partitionKey |-> "", sortKey |-> ""]
Gsis ==
  { [set |-> TRUE, indexName |-> "gsi1", alias |-> "byType",
     partitionKey |-> "gsi1_pk", sortKey |-> "gsi1_sk"],
    [set |-> TRUE, indexName |-> "gsi2", alias |-> "byOwner",
     partitionKey |-> "gsi2_pk", sortKey |-> ""],
    [set |-> TRUE, indexName |-> "", alias |-> "byWorkspace",
     partitionKey |-> "gsi_1_pk", sortKey |-> "gsi_1_sk"] }

\* pagination keys: LastEvaluatedKey / ExclusiveStartKey / cursor
NoKey == [kind |-> "undefined", id |-> 0]

\* one clause of an expression text: "#n op :v", "begins_with(#n, :v)",
\* "contains(#n, :v)", "#n BETWEEN :v1 AND :v2", "#n IN (:v1, ...)"
Clause(fn, op, name, vals) == [fn |-> fn, op |-> op, name |-> name, vals |-> vals]

\* const pkAttr / skAttr
pkAttrOf(gsi) == IF gsi.set THEN gsi.partitionKey ELSE "pk"
skAttrOf(gsi) == IF gsi.set THEN (IF gsi.sortKey # "" THEN gsi.sortKey ELSE "sk") ELSE "sk"

\* this.conditions.find((c) => c.operator === "and")
findAnd(conds) ==
  LET hits == {i \in 1..Len(conds) : conds[i].operator = "and"}
  IN IF hits = {} THEN [found |-> FALSE, value |-> Undef]
     ELSE [found |-> TRUE, value |-> conds[CHOOSE i \in hits : \A j \in hits : i <= j].value]

\* body of the loop over this.conditions
keyStep(acc, cond, conds, skAttr) ==
  IF cond.field # "sk" \/ cond.operator = "and" THEN acc
  ELSE IF cond.operator = "begins_with"
  THEN [expr |-> Append(acc.expr, Clause("begins_with", "", "#sk", <<":sk">>)),
        names |-> Put(acc.names, "#sk", skAttr),
        values |-> Put(acc.values, ":sk", cond.value)]
  ELSE IF cond.operator = "between"
  THEN (IF findAnd(conds).found
        THEN [expr |-> Append(acc.expr, Clause("between", "", "#sk", <<":sk1", ":sk2">>)),
              names |-> Put(acc.names, "#sk", skAttr),
              values |-> Put(Put(acc.values, ":sk1", cond.value), ":sk2", findAnd(conds).value)]
        ELSE [expr |-> Append(acc.expr, Clause("between", "", "#sk", <<":sk", ":sk2">>)),
              names |-> Put(acc.names, "#sk", skAttr),
              values |-> Put(acc.values, ":sk", cond.value)])
  ELSE [expr |-> Append(acc.expr, Clause("cmp", cond.operator, "#sk", <<":sk">>)),
        names |-> Put(acc.names, "#sk", skAttr),
        values |-> Put(acc.values, ":sk", cond.value)]

RECURSIVE keyLoop(_, _, _, _)
keyLoop(acc, rest, conds, skAttr) ==
  IF rest = <<>> THEN acc
  ELSE keyLoop(keyStep(acc, Head(rest), conds, skAttr), Tail(rest), conds, skAttr)

\* values.forEach((val, i) => exprAttrValues[`:${field}_${i}`] = val)
RECURSIVE putIn(_, _, _, _)
putIn(values, field, xs, i) ==
  IF i >= Len(xs) THEN values
  ELSE putIn(Put(values, ":" \o field \o "_" \o ToString(i), Sc(xs[i + 1])), field, xs, i + 1)

\* Array.isArray(filter.value) ? filter.value : [filter.value]
inValues(v) == IF v.arr THEN v.xs ELSE <<v.xs[1]>>

\* body of the loop over this.filters
filterStep(acc, f) ==
  LET name == "#" \o f.field
      val == ":" \o f.field
      named == Put(acc.names, name, f.field)
  IN IF f.operator = "begins_with"
     THEN [expr |-> Append(acc.expr, Clause("begins_with", "", name, <<val>>)),
           names |-> named, values |-> Put(acc.values, val, f.value)]
     ELSE IF f.operator = "contains"
     THEN [expr |-> Append(acc.expr, Clause("contains", "", name, <<val>>)),
           names |-> named, values |-> Put(acc.values, val, f.value)]
     ELSE IF f.operator = "IN"
     THEN [expr |-> Append(acc.expr,
                      Clause("in", "", name,
                             [i \in 1..Len(inValues(f.value)) |->
                                ":" \o f.field \o "_" \o ToString(i - 1)])),
           names |-> named, values |-> putIn(acc.values, f.field, inValues(f.value), 0)]
     ELSE [expr |-> Append(acc.expr, Clause("cmp", f.operator, name, <<val>>)),
           names |-> named, values |-> Put(acc.values, val, f.value)]

RECURSIVE filterLoop(_, _)
filterLoop(acc, rest) ==
  IF rest = <<>> THEN acc ELSE filterLoop(filterStep(acc, Head(rest)), Tail(rest))

\* variant: the cursor is never put on the request
exclusiveStartKeyDropped(cur) == NoKey

\* if (this.cursorValue && typeof this.cursorValue === "object")
exclusiveStartKey(cur) == IF cur.kind = "object" THEN cur ELSE NoKey

\* the QueryCommandInput built by exec
buildParams(conds, filts, gsi, pk, cur, lim, asc) ==
  LET k == keyLoop([expr |-> <<Clause("cmp", "=", "#pk", <<":pk">>)>>,
                    names |-> [n \in {"#pk"} |-> pkAttrOf(gsi)],
                    values |-> [n \in {":pk"} |-> pk]],
                   conds, conds, skAttrOf(gsi))
      f == filterLoop([expr |-> <<>>, names |-> k.names, values |-> k.values], filts)
  IN [KeyConditionExpression |-> k.expr,
      FilterExpression |-> f.expr,
      ExpressionAttributeNames |-> f.names,
      ExpressionAttributeValues |-> f.values,
      IndexName |-> IF gsi.set THEN gsi.indexName ELSE "",
      Limit |-> lim,
      ScanIndexForward |-> asc,
      ExclusiveStartKey |-> exclusiveStartKey(cur)]

\* ------------------------------------------------------------------------
\* State of one QueryKeyBuilder and of the store it queries
\* ------------------------------------------------------------------------
VARIABLES conditions, filters, skCalls, gsiConfig, pkData, cursorValue,
          limitValue, ascending, requests, output, result, storePages, keyKind

queryVars == <<conditions, filters, skCalls, gsiConfig, pkData, cursorValue,
               limitValue, ascending, requests, output, result, storePages, keyKind, limitValue, ascending>>

\* limitValue 0 stands for a limit that was never set
NoOutput == [page |-> 0, LastEvaluatedKey |-> NoKey]
NoResult == [status |-> "none", error |-> "", page |-> 0, cursor |-> NoKey]

\* the store: page p is followed by page p + 1; a page that is not the last
\* carries a LastEvaluatedKey naming it
servedPage(req) ==
  IF req.ExclusiveStartKey.kind = "undefined" THEN 1 ELSE req.ExclusiveStartKey.id + 1

storeQuery(req, pages, kind) ==
  LET p == servedPage(req)
  IN [page |-> p,
      LastEvaluatedKey |-> IF p < Len(pages) THEN [kind |-> kind, id |-> p] ELSE NoKey]

\* the result tuple exec builds from the store's answer
execResult(outcome, out) ==
  IF outcome = "transport"
  THEN [status |-> "error", error |-> "DynamoOperationError", page |-> 0, cursor |-> NoKey]
  ELSE IF outcome = "invalid"
  THEN [status |-> "error", error |-> "EntityValidationError", page |-> 0, cursor |-> NoKey]
  ELSE [status |-> "ok", error |-> "", page |-> out.page, cursor |-> out.LastEvaluatedKey]

PageSizes == 0..MaxItems

InitBuilder ==
  /\ conditions = <<>>
  /\ filters = <<>>
  /\ skCalls = <<>>
  /\ pkData = PkValue
  /\ cursorValue = NoKey
  /\ limitValue = 0
  /\ ascending = TRUE
  /\ requests = <<>>
  /\ output = NoOutput
  /\ result = NoResult

\* sk(operator, value, value2?)
sk(operator, value, value2) ==
  /\ requests = <<>>
  /\ Len(skCalls) + Len(filters) < MaxCalls
  /\ conditions' =
       (IF value2 # Undef
        THEN conditions \o <<[field |-> "sk", operator |-> operator, value |-> value],
                             [field |-> "sk", operator |-> "and", value |-> value2]>>
        ELSE Append(conditions, [field |-> "sk", operator |-> operator, value |-> value]))
  /\ skCalls' = Append(skCalls, [operator |-> operator, value |-> value, value2 |-> value2])
  /\ UNCHANGED <<filters, gsiConfig, pkData, cursorValue, requests, output, result,
                 storePages, keyKind, limitValue, ascending>>

\* filter(field, operator, value)
filter(field, operator, value) ==
  /\ requests = <<>>
  /\ Len(skCalls) + Len(filters) < MaxCalls
  /\ filters' = Append(filters, [field |-> field, operator |-> operator, value |-> value])
  /\ UNCHANGED <<conditions, skCalls, gsiConfig, pkData, cursorValue, requests, output,
                 result, storePages, keyKind, limitValue, ascending>>

\* cursor(cursor?)
cursor(c) ==
  /\ cursorValue' = c
  /\ UNCHANGED <<conditions, filters, skCalls, gsiConfig, pkData, requests, output,
                 result, storePages, keyKind, limitValue, ascending>>

\* limit(count)
limit(count) ==
  /\ limitValue' = count
  /\ UNCHANGED <<conditions, filters, skCalls, gsiConfig, pkData, cursorValue, ascending,
                 requests, output, result, storePages, keyKind>>

\* sortBy(direction)
sortBy(direction) ==
  /\ ascending' = (direction = "ASC")
  /\ UNCHANGED <<conditions, filters, skCalls, gsiConfig, pkData, cursorValue, limitValue,
                 requests, output, result, storePages, keyKind>>

\* BaseBuilder.send(command) with a retry after a failed attempt
sendRetrying(command, outcome) ==
  IF outcome = "transport" THEN <<command, command>> ELSE <<command>>

\* BaseBuilder.send(command): the commands handed to this.table.client.send,
\* one call whatever the client answers
send(command, outcome) == <<command>>

\* variant: exec clears the sort direction it has sent
execConsuming(outcome) ==
  LET req == buildParams(conditions, filters, gsiConfig, pkData, cursorValue,
                         limitValue, ascending)
      out == IF outcome = "transport" THEN NoOutput
             ELSE storeQuery(req, storePages, keyKind)
  IN /\ requests' = requests \o send(req, outcome)
     /\ output' = out
     /\ result' = execResult(outcome, out)
     /\ ascending' = TRUE
     /\ UNCHANGED <<conditions, filters, skCalls, gsiConfig, pkData, cursorValue,
                    storePages, keyKind, limitValue>>

\* exec(): build the request, send it, turn the answer into the result
exec(outcome) ==
  LET req == buildParams(conditions, filters, gsiConfig, pkData, cursorValue,
                         limitValue, ascending)
      out == IF outcome = "transport" THEN NoOutput
             ELSE storeQuery(req, storePages, keyKind)
  IN /\ requests' = requests \o send(req, outcome)
     /\ output' = out
     /\ result' = execResult(outcome, out)
     /\ UNCHANGED <<conditions, filters, skCalls, gsiConfig, pkData, cursorValue,
                    storePages, keyKind, limitValue, ascending>>

Outcomes == {"ok", "transport", "invalid"}

\* ========================================================================
\* stream().process
\* ========================================================================
VARIABLES options, spc, concurrency, scursor, idx, inflight, calls

streamVars == <<options, spc, concurrency, scursor, idx, inflight, calls>>

DefaultConcurrency == 10

NoOptions == [given |-> FALSE, n |-> 0]

\* options?.concurrency || 10
concurrencyOf(opt) == IF opt.given /\ opt.n # 0 THEN opt.n ELSE DefaultConcurrency

\* items of the store, item k of page p
itemsOf(pages) == UNION {{<<p, k>> : k \in 1..pages[p]} : p \in 1..Len(pages)}

pageLength(pages, p) == IF p \in 1..Len(pages) THEN pages[p] ELSE 0

\* Array.prototype.slice(from, to) on a page of len items, as the set of
\* positions (1-based) it selects
sliceOf(len, from, to) ==
  LET lo == IF from < 0 THEN (IF len + from < 0 THEN 0 ELSE len + from)
            ELSE (IF from > len THEN len ELSE from)
      hi == IF to < 0 THEN (IF len + to < 0 THEN 0 ELSE len + to)
            ELSE (IF to > len THEN len ELSE to)
  IN {k \in 1..len : lo < k /\ k <= hi}

\* variant: the slice takes one item too many
batchOfWide(len, i, conc) == sliceOf(len, i, i + conc + 1)

\* result.items.slice(i, i + concurrency)
batchOf(len, i, conc) == sliceOf(len, i, i + conc)

\* cursor = typeof result.cursor === "string" ? result.cursor : undefined
nextCursor(c) == IF c.kind = "string" THEN c ELSE NoKey

\* variant: the batch is not awaited
allSettledEarly(running) == TRUE

\* await Promise.all(...) lets the loop go on once every callback settled
allSettled(running) == running = {}

InitStream ==
  /\ spc = "idle"
  /\ concurrency = 0
  /\ scursor = NoKey
  /\ idx = 0
  /\ inflight = {}
  /\ calls = [it \in itemsOf(storePages) |-> 0]

\* process(processor, options) is called
processStart ==
  /\ spc = "idle"
  /\ concurrency' = concurrencyOf(options)
  /\ scursor' = NoKey
  /\ spc' = "fetch"
  /\ UNCHANGED <<options, idx, inflight, calls>>
  /\ UNCHANGED queryVars

\* const [result, error] = await this.cursor(cursor).exec(); if (error) throw error
processFetch(outcome) ==
  /\ spc = "fetch"
  /\ Len(requests) < MaxFetch
  /\ LET req == buildParams(conditions, filters, gsiConfig, pkData, scursor,
                            limitValue, ascending)
         out == IF outcome = "transport" THEN NoOutput
                ELSE storeQuery(req, storePages, keyKind)
     IN /\ cursorValue' = scursor
        /\ requests' = Append(requests, req)
        /\ output' = out
        /\ result' = execResult(outcome, out)
        /\ spc' = IF outcome = "ok" THEN "batch" ELSE "rejected"
  /\ idx' = 0
  /\ UNCHANGED <<conditions, filters, skCalls, gsiConfig, pkData, storePages, keyKind, limitValue, ascending>>
  /\ UNCHANGED <<options, concurrency, scursor, inflight, calls>>

\* one iteration of the for loop: the processors of a batch are started
processBatch ==
  /\ spc = "batch"
  /\ idx < pageLength(storePages, result.page)
  /\ LET batch == {<<result.page, k>> :
                     k \in batchOf(pageLength(storePages, result.page), idx, concurrency)}
     IN /\ inflight' = inflight \cup batch
        /\ calls' = [it \in DOMAIN calls |-> IF it \in batch THEN calls[it] + 1 ELSE calls[it]]
  /\ spc' = "await"
  /\ UNCHANGED <<options, concurrency, scursor, idx>>
  /\ UNCHANGED queryVars

\* a processor promise resolves
callbackDone(it) ==
  /\ it \in inflight
  /\ inflight' = inflight \ {it}
  /\ UNCHANGED <<options, spc, concurrency, scursor, idx, calls>>
  /\ UNCHANGED queryVars

\* a processor promise rejects: Promise.all rejects and process rejects
callbackFail(it) ==
  /\ it \in inflight
  /\ inflight' = inflight \ {it}
  /\ spc' = IF spc = "await" THEN "rejected" ELSE spc
  /\ UNCHANGED <<options, concurrency, scursor, idx, calls>>
  /\ UNCHANGED queryVars

\* Promise.all of the batch resolved: i += concurrency
processResume ==
  /\ spc = "await"
  /\ allSettled(inflight)
  /\ idx' = idx + concurrency
  /\ spc' = "batch"
  /\ UNCHANGED <<options, concurrency, scursor, inflight, calls>>
  /\ UNCHANGED queryVars

\* i += concurrency where the concurrency may be negative: the index is held
\* at -MaxSteps once it would pass it (from a negative index every slice with
\* a negative width is empty, so the loop goes on in the same way)
processResumeHeld ==
  /\ spc = "await"
  /\ allSettled(inflight)
  /\ idx' = (IF idx + concurrency < -MaxSteps THEN idx ELSE idx + concurrency)
  /\ spc' = "batch"
  /\ UNCHANGED <<options, concurrency, scursor, inflight, calls>>
  /\ UNCHANGED queryVars

\* the for loop is over: take the cursor, test the while condition
processPageEnd ==
  /\ spc = "batch"
  /\ ~(idx < pageLength(storePages, result.page))
  /\ scursor' = nextCursor(result.cursor)
  /\ spc' = IF nextCursor(result.cursor).kind # "undefined" THEN "fetch" ELSE "done"
  /\ UNCHANGED <<options, concurrency, idx, inflight, calls>>
  /\ UNCHANGED queryVars

\* ========================================================================
\* Public operation chains and how they report failure
\* ========================================================================
VARIABLES getKeySet, createItemSet, queryBuilder, opsLog

opsVars == <<getKeySet, createItemSet, queryBuilder, opsLog>>

\* the entity used by the operation chains: pk "a#{x}" with x a string, and
\* a string attribute title
KeyTemplate == <<Lit("a"), Lit("#"), Ph("x")>>
KeySchema == [x |-> "string"]

KeyInputs == {[x |-> Str(<<"a">>)], [x |-> Num(1)]}
ItemInputs == {[pk |-> k, title |-> t] : k \in KeyInputs, t \in {Str(<<"a">>), Num(1)}}
Aliases == {g.alias : g \in Gsis} \cup {"unknown"}

SkadiErrors == {"EntityValidationError", "MissingKeyError", "DynamoOperationError"}

\* this.schema.shape.pk.parse(keyData) succeeds
pkParses(keyData) == partitionKey(KeyTemplate, KeySchema, keyData).ok

\* this.schema.parse(data) succeeds
schemaParses(data) == pkParses(data.pk) /\ Accepts("string", data.title)

\* this.table.getGsiByAlias(alias)
getGsiByAlias(alias) ==
  IF \E g \in Gsis : g.alias = alias THEN CHOOSE g \in Gsis : g.alias = alias ELSE NoGsi

\* the cause property of an error: absent, the error object the client threw,
\* or an options object { cause: error } holding it
NoCause == [kind |-> "undefined", error |-> ""]
ErrorObject(e) == [kind |-> "error", error |-> e]
OptionsObject(e) == [kind |-> "options", error |-> e]

\* errors the store client throws from send()
ClientErrors == {"TimeoutError", "ThrottlingException"}

Returned(op) == [op |-> op, how |-> "returned", error |-> "", thrown |-> "", cause |-> NoCause]
Threw(op, e) == [op |-> op, how |-> "threw", error |-> e, thrown |-> "", cause |-> NoCause]
Pair(op, e) == [op |-> op, how |-> "pair", error |-> e, thrown |-> "", cause |-> NoCause]

\* new DynamoOperationError("DynamoDB operation failed", { cause: error }):
\* the constructor stores its second argument as this.cause
causeOf(e) == OptionsObject(e)

\* BaseBuilder.send(command) when the client throws e: the pair
\* [null, DynamoOperationError]
sendFailed(op, e) ==
  [op |-> op, how |-> "pair", error |-> "DynamoOperationError", thrown |-> e, cause |-> causeOf(e)]

\* [result, error] of an exec() that reached send(): the client answers, the
\* client throws e, or the answer fails the entity schema
Sent(op, outcome, e) ==
  IF outcome = "transport" THEN sendFailed(op, e)
  ELSE Pair(op, execResult(outcome, NoOutput).error)

Log(entry) == opsLog' = Append(opsLog, entry)

InitOps ==
  /\ getKeySet = FALSE
  /\ createItemSet = FALSE
  /\ queryBuilder = "none"
  /\ opsLog = <<>>

\* EntityQueryBuilder.pk(pkData)
queryPk(keyData) ==
  /\ Len(opsLog) < MaxOps
  /\ IF pkParses(keyData)
     THEN queryBuilder' = "key" /\ Log(Returned("query.pk"))
     ELSE queryBuilder' = queryBuilder /\ Log(Threw("query.pk", "ZodError"))
  /\ UNCHANGED <<getKeySet, createItemSet>>

\* EntityQueryBuilder.index(indexAlias)
queryIndex(alias) ==
  /\ Len(opsLog) < MaxOps
  /\ IF getGsiByAlias(alias).set
     THEN queryBuilder' = "index" /\ Log(Returned("query.index"))
     ELSE queryBuilder' = queryBuilder /\ Log(Threw("query.index", "Error"))
  /\ UNCHANGED <<getKeySet, createItemSet>>

\* QueryIndexBuilder.pk(pkData): a failed parse falls back to the raw data
indexPk(keyData) ==
  /\ Len(opsLog) < MaxOps
  /\ queryBuilder = "index"
  /\ queryBuilder' = "key"
  /\ Log(Returned("index.pk"))
  /\ UNCHANGED <<getKeySet, createItemSet>>

\* QueryKeyBuilder.exec() as seen by the caller
queryExec(outcome, e) ==
  /\ Len(opsLog) < MaxOps
  /\ queryBuilder = "key"
  /\ Log(Sent("query.exec", outcome, e))
  /\ UNCHANGED <<getKeySet, createItemSet, queryBuilder>>

\* EntityGetBuilder.key(keyData)
getKey(keyData) ==
  /\ Len(opsLog) < MaxOps
  /\ IF pkParses(keyData)
     THEN getKeySet' = TRUE /\ Log(Returned("get.key"))
     ELSE getKeySet' = getKeySet /\ Log(Threw("get.key", "ZodError"))
  /\ UNCHANGED <<createItemSet, queryBuilder>>

\* EntityGetBuilder.exec()
getExec(outcome, e) ==
  /\ Len(opsLog) < MaxOps
  /\ Log(IF ~getKeySet THEN Pair("get.exec", "MissingKeyError")
         ELSE Sent("get.exec", outcome, e))
  /\ UNCHANGED <<getKeySet, createItemSet, queryBuilder>>

\* ========================================================================
\* Write builders: create, update, transaction
\* ========================================================================
VARIABLES caseStyle, updateImpl, updateKey, updateUpdates, txWrites, itemData, sent

writeVars == <<caseStyle, updateImpl, updateKey, updateUpdates, txWrites, itemData, sent>>

\* table.options.caseStyle; "none" is an absent option
CaseStyles == {"none", "camelCase", "snakeCase", "pascalCase"}

\* attribute names a caller writes: the entity's attributes and one that
\* differs from an attribute in case only
FieldNames == {"balance", "status", "Status"}

\* lodash camelCase, snakeCase and upperFirst on the names used: words are
\* split at "_", at a digit and at a lower-to-upper case change
camelCase(k) ==
  CASE k \in {"Status"} -> "status"
    [] k \in {"Pk"} -> "pk"
    [] k \in {"Title"} -> "title"
    [] k \in {"Balance"} -> "balance"
    [] k \in {"gsi_1_pk", "Gsi1Pk"} -> "gsi1Pk"
    [] k \in {"created_at", "CreatedAt"} -> "createdAt"
    [] OTHER -> k
snakeCase(k) ==
  CASE k \in {"Status"} -> "status"
    [] k \in {"Pk"} -> "pk"
    [] k \in {"Title"} -> "title"
    [] k \in {"Balance"} -> "balance"
    [] k \in {"gsi1Pk", "Gsi1Pk"} -> "gsi_1_pk"
    [] k \in {"createdAt", "CreatedAt"} -> "created_at"
    [] OTHER -> k
upperFirst(k) ==
  CASE k = "pk" -> "Pk"
    [] k = "title" -> "Title"
    [] k = "balance" -> "Balance"
    [] k = "status" -> "Status"
    [] k = "gsi1Pk" -> "Gsi1Pk"
    [] k = "createdAt" -> "CreatedAt"
    [] OTHER -> k
pascalCase(k) == upperFirst(camelCase(k))

\* caseFunctions[caseStyle]
caseFunctions(style, k) ==
  CASE style = "camelCase" -> camelCase(k)
    [] style = "snakeCase" -> snakeCase(k)
    [] style = "pascalCase" -> pascalCase(k)
    [] OTHER -> k

\* a JavaScript object as its entries [k, v] in insertion order
Entry(k, v) == [k |-> k, v |-> v]
NoEntries == <<>>

\* Object.fromEntries: a repeated key keeps its first position and takes the
\* last value
RECURSIVE fromEntries(_)
fromEntries(es) ==
  IF es = <<>> THEN <<>>
  ELSE LET front == fromEntries(SubSeq(es, 1, Len(es) - 1))
           e == es[Len(es)]
       IN IF \E i \in 1..Len(front) : front[i].k = e.k
          THEN [i \in 1..Len(front) |-> IF front[i].k = e.k THEN e ELSE front[i]]
          ELSE Append(front, e)

\* Date.prototype.toISOString of the date parsed from "YY" (a century) or
\* "YYYY" (a year), in UTC
toISOString(d) ==
  (IF Len(d.s) = 2 THEN d.s \o <<"0", "0">> ELSE d.s) \o <<"-01-01T00:00:00.000Z">>

\* marshallWithDateConversion on one attribute value
marshallWithDateConversion(value) ==
  IF value.t = "date" THEN Str(toISOString(value))
  ELSE IF value.t = "string" /\ isDate(value)
       THEN Str(toISOString(parseDateString(value.s).date))
       ELSE value

\* transformObjectKeys on a flat object
transformObjectKeys(es, style) ==
  fromEntries([i \in 1..Len(es) |-> Entry(caseFunctions(style, es[i].k), es[i].v)])

\* serialize(data, caseStyle)
serialize(data, style) ==
  LET value == [i \in 1..Len(data) |-> Entry(data[i].k, marshallWithDateConversion(data[i].v))]
  IN IF style # "none" THEN transformObjectKeys(value, style) ELSE value

\* updateKeys.map(k => `#${k} = :${k}`), the name map and the value map built
\* from the keys of an object
setExpression(es) ==
  [UpdateExpression |->
     [i \in 1..Len(es) |-> [name |-> "#" \o es[i].k, value |-> ":" \o es[i].k]],
   ExpressionAttributeNames |->
     [ph \in {"#" \o es[i].k : i \in 1..Len(es)} |->
        es[CHOOSE i \in 1..Len(es) : "#" \o es[i].k = ph].k],
   ExpressionAttributeValues |->
     [ph \in {":" \o es[i].k : i \in 1..Len(es)} |->
        es[CHOOSE i \in 1..Len(es) : ":" \o es[i].k = ph].v]]

NoUpdate == setExpression(NoEntries)

\* builders/update.ts execute(): the expression over this._updates
executeParams(updates) == setExpression(updates)

\* the expression built from the updates as supplied
execParamsUnserialized(updates, style) == setExpression(updates)

\* operations update exec(): the expression over serialize(this._updates)
execParams(updates, style) == setExpression(serialize(updates, style))

\* the entity written: pk "a#{x}", a string title, and the optional
\* attributes balance (number) and status (string)
EntityAttributes == [title |-> "string", balance |-> "number", status |-> "string"]

\* this.schema.parse(data) of a create / put item
parsedItem(data) ==
  <<Entry("pk", Str(partitionKey(KeyTemplate, KeySchema, data.pk).value)),
    Entry("title", data.title)>>

\* commands handed to the client
PutCommand(item) ==
  [cmd |-> "PutCommand", Key |-> <<>>, Item |-> item, Update |-> NoUpdate,
   TransactItems |-> <<>>]
UpdateCommand(key, update) ==
  [cmd |-> "UpdateCommand", Key |-> key, Item |-> NoEntries, Update |-> update,
   TransactItems |-> <<>>]
TransactWriteCommand(writes) ==
  [cmd |-> "TransactWriteCommand", Key |-> <<>>, Item |-> NoEntries, Update |-> NoUpdate,
   TransactItems |-> writes]

\* entries of this._writes
PutWrite(item) == [kind |-> "Put", Key |-> <<>>, Item |-> item, Update |-> NoUpdate]
UpdateWrite(key, update) == [kind |-> "Update", Key |-> key, Item |-> NoEntries, Update |-> update]

NoUpdates == [set |-> FALSE, entries |-> NoEntries]
NoUpdateKey == [set |-> FALSE, pk |-> <<>>]

InitWrite ==
  /\ updateKey = NoUpdateKey
  /\ updateUpdates = NoUpdates
  /\ txWrites = <<>>
  /\ itemData = NoEntries
  /\ sent = <<>>

\* EntityUpdateBuilder.key(keyData)
updateKeyCall(keyData) ==
  /\ Len(opsLog) < MaxOps
  /\ IF pkParses(keyData)
     THEN /\ updateKey' = [set |-> TRUE, pk |-> partitionKey(KeyTemplate, KeySchema, keyData).value]
          /\ Log(Returned("update.key"))
     ELSE updateKey' = updateKey /\ Log(Threw("update.key", "ZodError"))
  /\ UNCHANGED <<getKeySet, createItemSet, queryBuilder>>
  /\ UNCHANGED <<caseStyle, updateImpl, updateUpdates, txWrites, itemData, sent>>

\* EntityUpdateBuilder.set(updates)
set(updates) ==
  /\ Len(opsLog) < MaxOps
  /\ updateUpdates' = [set |-> TRUE, entries |-> updates]
  /\ Log(Returned("update.set"))
  /\ UNCHANGED <<getKeySet, createItemSet, queryBuilder>>
  /\ UNCHANGED <<caseStyle, updateImpl, updateKey, txWrites, itemData, sent>>

\* EntityUpdateBuilder.exec() of operations, execute() of builders/update.ts
updateExec(outcome, e) ==
  /\ Len(opsLog) < MaxOps
  /\ IF ~updateKey.set \/ ~updateUpdates.set
     THEN sent' = sent /\ Log(Pair("update.exec", "MissingKeyError"))
     ELSE /\ sent' = sent \o send(
                UpdateCommand(updateKey.pk,
                  IF updateImpl = "operations"
                  THEN execParams(updateUpdates.entries, caseStyle)
                  ELSE executeParams(updateUpdates.entries)), outcome)
          /\ Log(Sent("update.exec", outcome, e))
  /\ UNCHANGED <<getKeySet, createItemSet, queryBuilder>>
  /\ UNCHANGED <<caseStyle, updateImpl, updateKey, updateUpdates, txWrites, itemData>>

\* EntityTransactionBuilder.put(item)
put(data) ==
  /\ Len(opsLog) < MaxOps
  /\ Len(txWrites) < MaxWrites
  /\ IF schemaParses(data)
     THEN /\ txWrites' = Append(txWrites, PutWrite(serialize(parsedItem(data), caseStyle)))
          /\ Log(Returned("transaction.put"))
     ELSE txWrites' = txWrites /\ Log(Threw("transaction.put", "ZodError"))
  /\ UNCHANGED <<getKeySet, createItemSet, queryBuilder>>
  /\ UNCHANGED <<caseStyle, updateImpl, updateKey, updateUpdates, itemData, sent>>

\* EntityTransactionBuilder.update(key, updates)
update(keyData, updates) ==
  /\ Len(opsLog) < MaxOps
  /\ Len(txWrites) < MaxWrites
  /\ IF pkParses(keyData)
     THEN /\ txWrites' = Append(txWrites,
                UpdateWrite(partitionKey(KeyTemplate, KeySchema, keyData).value,
                            setExpression(serialize(updates, caseStyle))))
          /\ Log(Returned("transaction.update"))
     ELSE txWrites' = txWrites /\ Log(Threw("transaction.update", "ZodError"))
  /\ UNCHANGED <<getKeySet, createItemSet, queryBuilder>>
  /\ UNCHANGED <<caseStyle, updateImpl, updateKey, updateUpdates, itemData, sent>>

\* EntityTransactionBuilder.exec()
transactionExec(outcome, e) ==
  /\ Len(opsLog) < MaxOps
  /\ IF txWrites = <<>>
     THEN sent' = sent /\ Log(Pair("transaction.exec", "DynamoOperationError"))
     ELSE /\ sent' = sent \o send(TransactWriteCommand(txWrites), outcome)
          /\ Log(IF outcome = "transport" THEN sendFailed("transaction.exec", e)
                 ELSE Pair("transaction.exec", ""))
  /\ UNCHANGED <<getKeySet, createItemSet, queryBuilder>>
  /\ UNCHANGED <<caseStyle, updateImpl, updateKey, updateUpdates, txWrites, itemData>>

\* ========================================================================
\* Keyed builders, batch-get and query: the items read back from the store
\* ========================================================================
VARIABLES shape, keyMeta, builderKey, batchKeys, table, readResult

readVars == <<shape, keyMeta, builderKey, batchKeys, table, readResult>>

\* a field of the entity schema: a key field built from a template by
\* zdynamo.partitionKey / sortKey / gsiPartitionKey, or a z.string() attribute
KeyField(name, T, sch) == [name |-> name, key |-> TRUE, template |-> T, params |-> sch]
StringAttribute(name) == [name |-> name, key |-> FALSE, template |-> <<>>, params |-> EmptyObj]

SortTemplate == <<Lit("#"), Ph("y")>>
SortSchema == [y |-> "string"]

\* entity schemas: pk and title; with a sort key; with the index key gsi_1_pk
PlainEntity == <<KeyField("pk", KeyTemplate, KeySchema), StringAttribute("title")>>
SortedEntity ==
  <<KeyField("pk", KeyTemplate, KeySchema), KeyField("sk", SortTemplate, SortSchema),
    StringAttribute("title")>>
IndexedEntity ==
  <<KeyField("pk", KeyTemplate, KeySchema), StringAttribute("title"),
    KeyField("gsi_1_pk", KeyTemplate, KeySchema)>>

\* schema.shape[name]
hasField(shp, name) == \E i \in 1..Len(shp) : shp[i].name = name
fieldNamed(shp, name) == shp[CHOOSE i \in 1..Len(shp) : shp[i].name = name]

\* obj[k] on an object held as entries
hasKey(es, k) == \E i \in 1..Len(es) : es[i].k = k
valueOf(es, k) == es[CHOOSE i \in 1..Len(es) : es[i].k = k].v

\* the _skadiKeyMeta property of the schema that zdynamo.partitionKey,
\* sortKey, gsiPartitionKey and gsiSortKey return: they attach none
zdynamoKeyMeta == FALSE

\* rehydrateKeysWithSchema(data, schema): a field of the shape that carries
\* metadata and holds a string matching its template becomes the parameter
\* object; meta tells whether the key fields of the shape carry metadata
rehydrateKeysWithSchema(es, shp, meta) ==
  [i \in 1..Len(es) |->
     LET k == es[i].k
         s == es[i].v.s
     IN IF meta /\ hasField(shp, k) /\ fieldNamed(shp, k).key
           /\ reverseTemplate(s, fieldNamed(shp, k).template, fieldNamed(shp, k).params).defined
        THEN Entry(k, ObjectField(
               reverseTemplate(s, fieldNamed(shp, k).template, fieldNamed(shp, k).params).obj))
        ELSE Entry(k, StringField(s))]

\* unmarshallWithDateConversion on the fields of an item
unmarshallItem(es) ==
  [i \in 1..Len(es) |->
     LET v == es[i].v
     IN IF v.kind = "object" THEN Entry(es[i].k, ObjectField(unmarshallWithDateConversion(v.obj)))
        ELSE IF isDate(Str(v.s)) THEN Entry(es[i].k, DateField(parseDateString(v.s).date.s))
        ELSE Entry(es[i].k, v)]

\* deserialize(data, schema) on an item of string attributes
deserializeItem(data, shp, meta) ==
  unmarshallItem(rehydrateKeysWithSchema(transformObjectKeys(data, "camelCase"), shp, meta))

\* zod on one field of the deserialized item: a key field takes the
\* parameter object, a z.string() attribute takes a string
fieldParses(f, es) ==
  /\ hasKey(es, f.name)
  /\ IF f.key
     THEN valueOf(es, f.name).kind = "object"
            /\ paramSchemaParse(f.params, valueOf(es, f.name).obj).ok
     ELSE valueOf(es, f.name).kind = "string"

parsedField(f, es) ==
  Entry(f.name,
        IF f.key
        THEN Str(templateReplace(f.template,
                                 paramSchemaParse(f.params, valueOf(es, f.name).obj).value))
        ELSE Str(valueOf(es, f.name).s))

\* this.schema.parse(deserialized): the parsed item, or the fields at fault
schemaParse(es, shp) ==
  LET issues == {shp[i].name : i \in {j \in 1..Len(shp) : ~fieldParses(shp[j], es)}}
  IN [ok |-> issues = {},
      issues |-> issues,
      item |-> IF issues = {} THEN [i \in 1..Len(shp) |-> parsedField(shp[i], es)]
               ELSE NoEntries]

\* what exec() of a read builder returns: [result, error]
NoRead == [status |-> "none", items |-> <<>>, error |-> "", issues |-> {}]
NullResult == [status |-> "null", items |-> <<>>, error |-> "", issues |-> {}]
Failure(e) == [status |-> "error", items |-> <<>>, error |-> e, issues |-> {}]

\* the response items mapped through deserialize and schema.parse, keeping
\* the items that validate
readItemsValid(items, shp, meta) ==
  LET parsed == [i \in 1..Len(items) |-> schemaParse(deserializeItem(items[i], shp, meta), shp)]
      good == SelectSeq(parsed, LAMBDA r : r.ok)
  IN [status |-> "ok", items |-> [i \in 1..Len(good) |-> good[i].item],
      error |-> "", issues |-> {}]

\* items.map(item => this.schema.parse(deserialize(item, this.schema)))
\* inside try / catch: the first item that fails ends the map
readItems(items, shp, meta) ==
  LET parsed == [i \in 1..Len(items) |-> schemaParse(deserializeItem(items[i], shp, meta), shp)]
      bad == {i \in 1..Len(items) : ~parsed[i].ok}
  IN IF bad = {}
     THEN [status |-> "ok", items |-> [i \in 1..Len(items) |-> parsed[i].item],
           error |-> "", issues |-> {}]
     ELSE [status |-> "error", items |-> <<>>, error |-> "EntityValidationError",
           issues |-> parsed[CHOOSE i \in bad : \A j \in bad : i <= j].issues]

\* the store: an item carries every attribute of the key it is asked for
matches(item, keyEntries) ==
  \A i \in 1..Len(keyEntries) :
     hasKey(item, keyEntries[i].k) /\ valueOf(item, keyEntries[i].k) = keyEntries[i].v

storeGet(tbl, keyEntries) == SelectSeq(tbl, LAMBDA it : matches(it, keyEntries))

storeBatchGet(tbl, keyList) ==
  SelectSeq(tbl, LAMBDA it : \E i \in 1..Len(keyList) : matches(it, keyList[i]))

\* a put replaces the item that has the same first (key) attribute
storePut(tbl, item) == SelectSeq(tbl, LAMBDA it : it[1] # item[1]) \o <<item>>

storeDelete(tbl, keyEntries) == SelectSeq(tbl, LAMBDA it : ~matches(it, keyEntries))

\* read and delete commands handed to the client
GetCommand(keyEntries) ==
  [cmd |-> "GetCommand", Key |-> keyEntries, Item |-> NoEntries, Update |-> NoUpdate,
   TransactItems |-> <<>>]
DeleteCommand(keyEntries) ==
  [cmd |-> "DeleteCommand", Key |-> keyEntries, Item |-> NoEntries, Update |-> NoUpdate,
   TransactItems |-> <<>>]
BatchGetCommand(keyList) ==
  [cmd |-> "BatchGetCommand", Key |-> keyList, Item |-> NoEntries, Update |-> NoUpdate,
   TransactItems |-> <<>>]
QueryCommand(keyEntries) ==
  [cmd |-> "QueryCommand", Key |-> keyEntries, Item |-> NoEntries, Update |-> NoUpdate,
   TransactItems |-> <<>>]

\* builders that hold a key: get, delete, and the query builder made by pk()
KeyedOps == {"get", "delete", "query"}
NoBuilderKey == [set |-> FALSE, entries |-> NoEntries]

InitRead ==
  /\ builderKey = [op \in KeyedOps |-> NoBuilderKey]
  /\ batchKeys = <<>>
  /\ table = <<>>
  /\ readResult = NoRead

\* what the client answers: it resolves or it throws
ClientOutcomes == {"ok", "transport"}

\* key(keyData) of EntityGetBuilder and EntityDeleteBuilder: this._key is
\* assigned as soon as pk has parsed, before sk is parsed
keyCall(op, keyData) ==
  LET pkf == fieldNamed(shape, "pk")
      pkKey == partitionKey(pkf.template, pkf.params, keyData)
      skf == fieldNamed(shape, "sk")
      skKey == partitionKey(skf.template, skf.params, keyData)
      pkOnly == [set |-> TRUE, entries |-> <<Entry("pk", Str(pkKey.value))>>]
  IN /\ Len(opsLog) < MaxOps
     /\ IF ~pkKey.ok
        THEN builderKey' = builderKey /\ Log(Threw(op \o ".key", "ZodError"))
        ELSE IF ~hasField(shape, "sk")
        THEN builderKey' = [builderKey EXCEPT ![op] = pkOnly] /\ Log(Returned(op \o ".key"))
        ELSE IF ~skKey.ok
        THEN builderKey' = [builderKey EXCEPT ![op] = pkOnly]
               /\ Log(Threw(op \o ".key", "ZodError"))
        ELSE /\ builderKey' = [builderKey EXCEPT ![op] =
                  [set |-> TRUE,
                   entries |-> <<Entry("pk", Str(pkKey.value)), Entry("sk", Str(skKey.value))>>]]
             /\ Log(Returned(op \o ".key"))
     /\ UNCHANGED <<getKeySet, createItemSet, queryBuilder, writeVars>>
     /\ UNCHANGED <<shape, keyMeta, batchKeys, table, readResult>>

\* EntityQueryBuilder.pk(pkData): the QueryKeyBuilder holding the parsed pk
pkCall(keyData) ==
  LET pkf == fieldNamed(shape, "pk")
      pkKey == partitionKey(pkf.template, pkf.params, keyData)
  IN /\ Len(opsLog) < MaxOps
     /\ IF ~pkKey.ok
        THEN builderKey' = builderKey /\ Log(Threw("query.pk", "ZodError"))
        ELSE /\ builderKey' = [builderKey EXCEPT !["query"] =
                  [set |-> TRUE, entries |-> <<Entry("pk", Str(pkKey.value))>>]]
             /\ Log(Returned("query.pk"))
     /\ UNCHANGED <<getKeySet, createItemSet, queryBuilder, writeVars>>
     /\ UNCHANGED <<shape, keyMeta, batchKeys, table, readResult>>

\* EntityGetBuilder.exec()
getItemExec(outcome, e) ==
  LET builder == builderKey["get"]
      answer == storeGet(table, builder.entries)
      res == IF answer = <<>> THEN NullResult
             ELSE readItems(<<answer[1]>>, shape, keyMeta)
  IN /\ Len(opsLog) < MaxOps
     /\ IF ~builder.set
        THEN /\ sent' = sent
             /\ readResult' = Failure("MissingKeyError")
             /\ Log(Pair("get.exec", "MissingKeyError"))
        ELSE /\ sent' = sent \o send(GetCommand(builder.entries), outcome)
             /\ IF outcome = "transport"
                THEN readResult' = Failure("DynamoOperationError")
                       /\ Log(sendFailed("get.exec", e))
                ELSE readResult' = res /\ Log(Pair("get.exec", res.error))
     /\ UNCHANGED <<getKeySet, createItemSet, queryBuilder>>
     /\ UNCHANGED <<caseStyle, updateImpl, updateKey, updateUpdates, txWrites, itemData>>
     /\ UNCHANGED <<shape, keyMeta, builderKey, batchKeys, table>>

\* EntityDeleteBuilder.exec(): the store removes the item and answers with
\* its old attributes, which are deserialized and returned unparsed
deleteExec(outcome, e) ==
  LET builder == builderKey["delete"]
      answer == storeGet(table, builder.entries)
  IN /\ Len(opsLog) < MaxOps
     /\ IF ~builder.set
        THEN /\ sent' = sent
             /\ table' = table
             /\ readResult' = Failure("MissingKeyError")
             /\ Log(Pair("delete.exec", "MissingKeyError"))
        ELSE /\ sent' = sent \o send(DeleteCommand(builder.entries), outcome)
             /\ IF outcome = "transport"
                THEN /\ table' = table
                     /\ readResult' = Failure("DynamoOperationError")
                     /\ Log(sendFailed("delete.exec", e))
                ELSE /\ table' = storeDelete(table, builder.entries)
                     /\ readResult' = (IF answer = <<>> THEN NullResult
                                      ELSE [NullResult EXCEPT !.status = "deleted"])
                     /\ Log(Pair("delete.exec", ""))
     /\ UNCHANGED <<getKeySet, createItemSet, queryBuilder>>
     /\ UNCHANGED <<caseStyle, updateImpl, updateKey, updateUpdates, txWrites, itemData>>
     /\ UNCHANGED <<shape, keyMeta, builderKey, batchKeys>>

\* EntityBatchGetBuilder.keys(keys): this._keys is assigned only when every
\* key has parsed
batchKeysCall(keyList) ==
  LET pkf == fieldNamed(shape, "pk")
      pkKey(i) == partitionKey(pkf.template, pkf.params, keyList[i])
      skf == fieldNamed(shape, "sk")
      skKey(i) == partitionKey(skf.template, skf.params, keyList[i])
      parses(i) == pkKey(i).ok /\ (hasField(shape, "sk") => skKey(i).ok)
  IN /\ Len(opsLog) < MaxOps
     /\ IF \A i \in 1..Len(keyList) : parses(i)
        THEN /\ batchKeys' =
                  [i \in 1..Len(keyList) |->
                     <<Entry("pk", Str(pkKey(i).value))>>
                       \o (IF hasField(shape, "sk") THEN <<Entry("sk", Str(skKey(i).value))>>
                           ELSE <<>>)]
             /\ Log(Returned("batch.keys"))
        ELSE batchKeys' = batchKeys /\ Log(Threw("batch.keys", "ZodError"))
     /\ UNCHANGED <<getKeySet, createItemSet, queryBuilder, writeVars>>
     /\ UNCHANGED <<shape, keyMeta, builderKey, table, readResult>>

\* EntityBatchGetBuilder.exec()
batchExec(outcome, e) ==
  LET res == readItems(storeBatchGet(table, batchKeys), shape, keyMeta)
  IN /\ Len(opsLog) < MaxOps
     /\ IF batchKeys = <<>>
        THEN /\ sent' = sent
             /\ readResult' = Failure("DynamoOperationError")
             /\ Log(Pair("batch.exec", "DynamoOperationError"))
        ELSE /\ sent' = sent \o send(BatchGetCommand(batchKeys), outcome)
             /\ IF outcome = "transport"
                THEN readResult' = Failure("DynamoOperationError")
                       /\ Log(sendFailed("batch.exec", e))
                ELSE readResult' = res /\ Log(Pair("batch.exec", res.error))
     /\ UNCHANGED <<getKeySet, createItemSet, queryBuilder>>
     /\ UNCHANGED <<caseStyle, updateImpl, updateKey, updateUpdates, txWrites, itemData>>
     /\ UNCHANGED <<shape, keyMeta, builderKey, batchKeys, table>>

\* QueryKeyBuilder.exec() on the base table with no conditions: the items
\* of the partition, each deserialized and parsed
queryItemsExec(outcome, e) ==
  LET builder == builderKey["query"]
      res == readItems(storeGet(table, builder.entries), shape, keyMeta)
  IN /\ Len(opsLog) < MaxOps
     /\ builder.set
     /\ sent' = sent \o send(QueryCommand(builder.entries), outcome)
     /\ IF outcome = "transport"
        THEN readResult' = Failure("DynamoOperationError")
               /\ Log(sendFailed("query.exec", e))
        ELSE readResult' = res /\ Log(Pair("query.exec", res.error))
     /\ UNCHANGED <<getKeySet, createItemSet, queryBuilder>>
     /\ UNCHANGED <<caseStyle, updateImpl, updateKey, updateUpdates, txWrites, itemData>>
     /\ UNCHANGED <<shape, keyMeta, builderKey, batchKeys, table>>

\* EntityCreateBuilder.item(data)
createItem(data) ==
  /\ Len(opsLog) < MaxOps
  /\ IF schemaParses(data)
     THEN /\ createItemSet' = TRUE
          /\ itemData' = parsedItem(data)
          /\ Log(Returned("create.item"))
     ELSE /\ createItemSet' = createItemSet
          /\ itemData' = itemData
          /\ Log(Threw("create.item", "ZodError"))
  /\ UNCHANGED <<getKeySet, queryBuilder>>
  /\ UNCHANGED <<caseStyle, updateImpl, updateKey, updateUpdates, txWrites, sent>>

\* EntityCreateBuilder.exec(); the store keeps the item it accepted
createExec(outcome, e) ==
  /\ Len(opsLog) < MaxOps
  /\ IF ~createItemSet
     THEN sent' = sent /\ Log(Pair("create.exec", "MissingKeyError"))
     ELSE /\ sent' = sent \o send(PutCommand(serialize(itemData, caseStyle)), outcome)
          /\ Log(IF outcome = "transport" THEN sendFailed("create.exec", e)
                 ELSE Pair("create.exec", ""))
  /\ table' = (IF createItemSet /\ outcome # "transport"
               THEN storePut(table, serialize(itemData, caseStyle)) ELSE table)
  /\ UNCHANGED <<getKeySet, createItemSet, queryBuilder>>
  /\ UNCHANGED <<caseStyle, updateImpl, updateKey, updateUpdates, txWrites, itemData>>
  /\ UNCHANGED <<shape, keyMeta, builderKey, batchKeys, readResult>>

\* ========================================================================
\* transformObjectKeys: key names through camelCase and snakeCase
\* ========================================================================
VARIABLES keysIn, keysOut

caseVars == <<keysIn, keysOut>>

\* key names a caller or the store may hold
KeyNames ==
  {"pk", "title", "status", "Status", "gsi_1_pk", "gsi1Pk", "createdAt", "created_at"}

\* objects with distinct keys, values being scalars (returned as they are)
KeyObjects ==
  {es \in SeqsUpTo({Entry(k, Num(1)) : k \in KeyNames}, MaxFields) :
     \A i, j \in 1..Len(es) : es[i].k = es[j].k => i = j}

NoKeys == [done |-> FALSE, camel |-> NoEntries, snake |-> NoEntries]

InitCase ==
  /\ keysIn \in KeyObjects
  /\ keysOut = NoKeys

\* transformObjectKeys(transformObjectKeys(obj, camelCase), snakeCase)
transformKeys ==
  /\ ~keysOut.done
  /\ LET camel == transformObjectKeys(keysIn, "camelCase")
     IN keysOut' = [done |-> TRUE, camel |-> camel,
                    snake |-> transformObjectKeys(camel, "snakeCase")]
  /\ UNCHANGED keysIn

\* ========================================================================
\* Specifications
\* ========================================================================
vars == <<codecVars, queryVars, streamVars, opsVars, writeVars, readVars, caseVars>>

\* parts of the state a specification does not exercise
IdleCodec ==
  /\ tmpl = <<Ph("x")>>
  /\ schema = [x |-> "string"]
  /\ params = [x |-> Str(<<"a">>)]
  /\ keyStr = <<>>
  /\ decoded = Undefined
  /\ cpc = "off"
  /\ codecError = ""
  /\ fieldValue = StringField(<<>>)

IdleStore ==
  /\ storePages = <<1>>
  /\ keyKind = "object"

IdleQuery == InitBuilder /\ IdleStore /\ gsiConfig = NoGsi

IdleStream == InitStream /\ options = NoOptions

IdleWrite == InitWrite /\ caseStyle = "none" /\ updateImpl = "operations"

IdleRead == InitRead /\ shape = PlainEntity /\ keyMeta = zdynamoKeyMeta

IdleCase == keysIn = NoEntries /\ keysOut = NoKeys

\* --- composite keys: encode then decode --------------------------------
InitKeys == InitCodec /\ IdleQuery /\ IdleStream /\ InitOps /\ IdleWrite /\ IdleRead /\ IdleCase

NextCodec ==
  \/ (Encode /\ UNCHANGED <<queryVars, streamVars, opsVars, writeVars, readVars, caseVars>>)
  \/ (Decode /\ UNCHANGED <<queryVars, streamVars, opsVars, writeVars, readVars, caseVars>>)

SpecCodec == InitKeys /\ [][NextCodec]_vars

\* --- encoding any parameter object under any parameter schema ----------
ParamNames == {"x", "y"}
AnyValues == UNION {ValuesOf(ty) : ty \in ParamTypes}

InitEncode ==
  /\ tmpl \in Templates
  /\ schema \in UNION {[D -> ParamTypes] : D \in SUBSET ParamNames}
  /\ params \in UNION {[D -> AnyValues] : D \in SUBSET ParamNames}
  /\ keyStr = <<>>
  /\ decoded = Undefined
  /\ cpc = "init"
  /\ codecError = ""
  /\ fieldValue = StringField(<<>>)
  /\ IdleQuery /\ IdleStream /\ InitOps /\ IdleWrite /\ IdleRead /\ IdleCase

NextEncode == Encode /\ UNCHANGED <<queryVars, streamVars, opsVars, writeVars, readVars, caseVars>>

SpecEncode == InitEncode /\ [][NextEncode]_vars

\* --- reading back any stored string ------------------------------------
StoredStrings == SeqsUpTo(Chars, MaxStr)

InitStored ==
  /\ tmpl \in Templates
  /\ schema \in [PhNames(tmpl) -> ParamTypes]
  /\ params = [n \in PhNames(tmpl) |-> Str(<<>>)]
  /\ keyStr \in StoredStrings
  /\ decoded = Undefined
  /\ cpc = "stored"
  /\ codecError = ""
  /\ fieldValue = StringField(<<>>)
  /\ IdleQuery /\ IdleStream /\ InitOps /\ IdleWrite /\ IdleRead /\ IdleCase

NextDecode == Deserialize /\ UNCHANGED <<queryVars, streamVars, opsVars, writeVars, readVars, caseVars>>

SpecDecode == InitStored /\ [][NextDecode]_vars

\* --- one query builder: sk() / filter() calls, then exec() --------------
InitQuery ==
  /\ IdleCodec /\ InitBuilder /\ IdleStore /\ IdleStream /\ InitOps /\ IdleWrite /\ IdleRead /\ IdleCase
  /\ gsiConfig \in {NoGsi} \cup Gsis

NextQuery ==
  \/ \E op \in SkOperators, v \in Values, v2 \in Values \cup {Undef} :
       sk(op, v, v2) /\ UNCHANGED <<codecVars, streamVars, opsVars, writeVars, readVars, caseVars>>
  \/ \E fld \in FilterFields, op \in FilterOperators \ {"IN"}, v \in Values :
       filter(fld, op, v) /\ UNCHANGED <<codecVars, streamVars, opsVars, writeVars, readVars, caseVars>>
  \/ \E fld \in FilterFields, v \in InLists :
       filter(fld, "IN", v) /\ UNCHANGED <<codecVars, streamVars, opsVars, writeVars, readVars, caseVars>>
  \/ \E o \in Outcomes :
       requests = <<>> /\ exec(o) /\ UNCHANGED <<codecVars, streamVars, opsVars, writeVars, readVars, caseVars>>

SpecQuery == InitQuery /\ [][NextQuery]_vars

\* --- pagination: cursor() and exec() on one builder --------------------
StorePages == UNION {[1..k -> PageSizes] : k \in 1..MaxPages}

InitPage ==
  /\ IdleCodec /\ InitBuilder /\ InitOps /\ IdleWrite /\ IdleRead /\ IdleCase
  /\ gsiConfig = NoGsi
  /\ storePages \in StorePages
  /\ keyKind = "object"
  /\ IdleStream

CursorInputs == {NoKey} \cup {[kind |-> keyKind, id |-> i] : i \in 1..(Len(storePages) - 1)}

NextPage ==
  \/ \E c \in CursorInputs :
       cursor(c) /\ UNCHANGED <<codecVars, streamVars, opsVars, writeVars, readVars, caseVars>>
  \/ \E n \in 1..MaxItems :
       requests = <<>> /\ limit(n) /\ UNCHANGED <<codecVars, streamVars, opsVars, writeVars, readVars, caseVars>>
  \/ \E dir \in {"ASC", "DESC"} :
       requests = <<>> /\ sortBy(dir) /\ UNCHANGED <<codecVars, streamVars, opsVars, writeVars, readVars, caseVars>>
  \/ \E o \in Outcomes :
       Len(requests) < MaxExec /\ exec(o) /\ UNCHANGED <<codecVars, streamVars, opsVars, writeVars, readVars, caseVars>>

SpecPage == InitPage /\ [][NextPage]_vars

\* --- streaming ----------------------------------------------------------
StreamPageSizes == PageSizes \cup {DefaultConcurrency + 1}
StreamPages == UNION {[1..k -> StreamPageSizes] : k \in 1..MaxPages}
StreamOptions == {NoOptions} \cup {[given |-> TRUE, n |-> c] : c \in 1..MaxConc}

InitProcess(kinds) ==
  /\ IdleCodec /\ InitBuilder /\ InitOps /\ IdleWrite /\ IdleRead /\ IdleCase
  /\ gsiConfig = NoGsi
  /\ storePages \in StreamPages
  /\ keyKind \in kinds
  /\ options \in StreamOptions
  /\ InitStream

\* the store answers with key objects, as the SDK's QueryCommandOutput does
InitStrict == InitProcess({"object"})

\* the store client may also hand out string keys
InitLoose == InitProcess({"object", "string"})

NextStream ==
  \/ processStart /\ UNCHANGED <<codecVars, opsVars, writeVars, readVars, caseVars>>
  \/ \E o \in Outcomes : processFetch(o) /\ UNCHANGED <<codecVars, opsVars, writeVars, readVars, caseVars>>
  \/ processBatch /\ UNCHANGED <<codecVars, opsVars, writeVars, readVars, caseVars>>
  \/ \E it \in inflight : callbackDone(it) /\ UNCHANGED <<codecVars, opsVars, writeVars, readVars, caseVars>>
  \/ \E it \in inflight : callbackFail(it) /\ UNCHANGED <<codecVars, opsVars, writeVars, readVars, caseVars>>
  \/ processResume /\ UNCHANGED <<codecVars, opsVars, writeVars, readVars, caseVars>>
  \/ processPageEnd /\ UNCHANGED <<codecVars, opsVars, writeVars, readVars, caseVars>>

SpecStream == InitStrict /\ [][NextStream]_vars

SpecStreamLoose == InitLoose /\ [][NextStream]_vars

\* --- public operation chains ------------------------------------------
InitChains == IdleCodec /\ IdleQuery /\ IdleStream /\ InitOps /\ IdleWrite /\ IdleRead /\ IdleCase

NextOps ==
  \/ \E k \in KeyInputs : queryPk(k) /\ UNCHANGED <<codecVars, queryVars, streamVars, writeVars, readVars, caseVars>>
  \/ \E al \in Aliases : queryIndex(al) /\ UNCHANGED <<codecVars, queryVars, streamVars, writeVars, readVars, caseVars>>
  \/ \E k \in KeyInputs : indexPk(k) /\ UNCHANGED <<codecVars, queryVars, streamVars, writeVars, readVars, caseVars>>
  \/ \E o \in Outcomes, e \in ClientErrors : queryExec(o, e) /\ UNCHANGED <<codecVars, queryVars, streamVars, writeVars, readVars, caseVars>>
  \/ \E k \in KeyInputs : getKey(k) /\ UNCHANGED <<codecVars, queryVars, streamVars, writeVars, readVars, caseVars>>
  \/ \E o \in Outcomes, e \in ClientErrors : getExec(o, e) /\ UNCHANGED <<codecVars, queryVars, streamVars, writeVars, readVars, caseVars>>
  \/ \E d \in ItemInputs : createItem(d) /\ UNCHANGED <<codecVars, queryVars, streamVars, readVars, caseVars>>
  \/ \E o \in Outcomes, e \in ClientErrors : createExec(o, e) /\ UNCHANGED <<codecVars, queryVars, streamVars, caseVars>>

SpecOps == InitChains /\ [][NextOps]_vars

\* --- write builders -------------------------------------------------------
\* a number, an ordinary string and a string that reads as a date
UpdateValues == {Num(1), Str(<<"a">>), Str(<<"1", "1">>)}

\* objects passed to set(): up to MaxFields distinct fields
UpdateInputs ==
  {es \in SeqsUpTo({Entry(k, v) : k \in FieldNames, v \in UpdateValues}, MaxFields) :
     \A i, j \in 1..Len(es) : es[i].k = es[j].k => i = j}

InitWrites ==
  /\ IdleCodec /\ IdleQuery /\ IdleStream /\ InitOps /\ IdleRead /\ IdleCase
  /\ InitWrite
  /\ caseStyle \in CaseStyles
  /\ updateImpl \in {"operations", "builders"}

\* one field per call is enough to send an unvalidated value
SingleUpdates == {es \in UpdateInputs : Len(es) = 1}

\* a builder backs one operation: it sends at most once
NextWrite ==
  \/ \E k \in KeyInputs :
       updateKeyCall(k) /\ UNCHANGED <<codecVars, queryVars, streamVars, readVars, caseVars>>
  \/ \E u \in SingleUpdates :
       set(u) /\ UNCHANGED <<codecVars, queryVars, streamVars, readVars, caseVars>>
  \/ \E o \in Outcomes, e \in ClientErrors :
       sent = <<>> /\ updateExec(o, e) /\ UNCHANGED <<codecVars, queryVars, streamVars, readVars, caseVars>>
  \/ \E d \in ItemInputs :
       put(d) /\ UNCHANGED <<codecVars, queryVars, streamVars, readVars, caseVars>>
  \/ \E k \in KeyInputs, u \in SingleUpdates :
       update(k, u) /\ UNCHANGED <<codecVars, queryVars, streamVars, readVars, caseVars>>
  \/ \E o \in Outcomes, e \in ClientErrors :
       sent = <<>> /\ transactionExec(o, e) /\ UNCHANGED <<codecVars, queryVars, streamVars, readVars, caseVars>>
  \/ \E d \in ItemInputs :
       createItem(d) /\ UNCHANGED <<codecVars, queryVars, streamVars, readVars, caseVars>>
  \/ \E o \in Outcomes, e \in ClientErrors :
       sent = <<>> /\ createExec(o, e) /\ UNCHANGED <<codecVars, queryVars, streamVars, caseVars>>

SpecWrite == InitWrites /\ [][NextWrite]_vars

\* --- one update builder ---------------------------------------------------
\* key() and set() configure the builder, then exec() sends once
NextUpdate ==
  \/ \E k \in KeyInputs :
       sent = <<>> /\ updateKeyCall(k) /\ UNCHANGED <<codecVars, queryVars, streamVars, readVars, caseVars>>
  \/ \E u \in UpdateInputs :
       sent = <<>> /\ set(u) /\ UNCHANGED <<codecVars, queryVars, streamVars, readVars, caseVars>>
  \/ \E o \in Outcomes, e \in ClientErrors :
       sent = <<>> /\ updateExec(o, e) /\ UNCHANGED <<codecVars, queryVars, streamVars, readVars, caseVars>>

SpecUpdate == InitWrites /\ [][NextUpdate]_vars

\* --- reading items that the store already holds ---------------------------
\* key data with and without the sort-key parameter
FetchKeys ==
  {[x |-> Str(<<"a">>)],
   [x |-> Str(<<"a">>), y |-> Str(<<"a">>)],
   [x |-> Str(<<"1">>), y |-> Str(<<"1">>)]}

\* attribute values found in the table: well-formed keys, an ordinary title
\* and a title that reads as a date
StoredValues(shp, f) ==
  IF f.name = "sk" THEN {Str(<<"#", "a">>), Str(<<"#", "1">>)}
  ELSE IF f.name = "pk" /\ ~hasField(shp, "sk")
       THEN {Str(<<"a", "#", "a">>), Str(<<"a", "#", "1">>)}
  ELSE IF f.key THEN {Str(<<"a", "#", "a">>)}
  ELSE {Str(<<"a">>), Str(<<"1", "1">>)}

\* items of the entity as some writer left them in the table
StoredItems(shp) ==
  {it \in [1..Len(shp) ->
             UNION {{Entry(shp[i].name, v) : v \in StoredValues(shp, shp[i])} :
                      i \in 1..Len(shp)}] :
     \A i \in 1..Len(shp) : it[i].k = shp[i].name}

\* tables of up to MaxItems items with distinct primary keys
StoredTables(shp) ==
  {t \in SeqsUpTo(StoredItems(shp), MaxItems) :
     \A i, j \in 1..Len(t) :
        (\A n \in {"pk", "sk"} :
            hasKey(t[i], n) => valueOf(t[i], n) = valueOf(t[j], n)) => i = j}

\* lists of distinct keys passed to keys()
FetchKeyLists ==
  {ks \in SeqsUpTo(FetchKeys, MaxItems) \ {<<>>} :
     \A i, j \in 1..Len(ks) : ks[i] = ks[j] => i = j}

InitFetch ==
  /\ IdleCodec /\ IdleQuery /\ IdleStream /\ InitOps /\ IdleWrite /\ IdleCase
  /\ shape \in {PlainEntity, SortedEntity, IndexedEntity}
  /\ keyMeta \in BOOLEAN
  /\ builderKey = [op \in KeyedOps |-> NoBuilderKey]
  /\ batchKeys = <<>>
  /\ table \in StoredTables(shape)
  /\ readResult = NoRead

\* no builder other than op has been given a key
OnlyBuilder(op) ==
  /\ \A o \in KeyedOps \ {op} : ~builderKey[o].set
  /\ op # "batch" => batchKeys = <<>>

\* one builder is used, for one operation
NextFetch ==
  \/ \E op \in {"get", "delete"}, k \in FetchKeys :
       /\ sent = <<>> /\ OnlyBuilder(op)
       /\ keyCall(op, k) /\ UNCHANGED <<codecVars, queryVars, streamVars, caseVars>>
  \/ \E k \in FetchKeys :
       /\ sent = <<>> /\ OnlyBuilder("query")
       /\ pkCall(k) /\ UNCHANGED <<codecVars, queryVars, streamVars, caseVars>>
  \/ \E ks \in FetchKeyLists :
       /\ sent = <<>> /\ OnlyBuilder("batch")
       /\ batchKeysCall(ks) /\ UNCHANGED <<codecVars, queryVars, streamVars, caseVars>>
  \/ \E o \in ClientOutcomes, e \in ClientErrors :
       /\ sent = <<>> /\ OnlyBuilder("get")
       /\ getItemExec(o, e) /\ UNCHANGED <<codecVars, queryVars, streamVars, caseVars>>
  \/ \E o \in ClientOutcomes, e \in ClientErrors :
       /\ sent = <<>> /\ OnlyBuilder("delete")
       /\ deleteExec(o, e) /\ UNCHANGED <<codecVars, queryVars, streamVars, caseVars>>
  \/ \E o \in ClientOutcomes, e \in ClientErrors :
       /\ sent = <<>> /\ OnlyBuilder("batch")
       /\ batchExec(o, e) /\ UNCHANGED <<codecVars, queryVars, streamVars, caseVars>>
  \/ \E o \in ClientOutcomes, e \in ClientErrors :
       /\ sent = <<>> /\ OnlyBuilder("query")
       /\ queryItemsExec(o, e) /\ UNCHANGED <<codecVars, queryVars, streamVars, caseVars>>

SpecFetch == InitFetch /\ [][NextFetch]_vars

\* --- writing an item and reading it back ---------------------------------
\* items passed to create().item(): the items of the operation chains and one
\* whose title reads as a date
RoundItems == ItemInputs \cup {[pk |-> [x |-> Str(<<"a">>)], title |-> Str(<<"1", "1">>)]}

\* the update of the example application, one field of it
RoundUpdates == {<<Entry("balance", Num(1))>>}

\* the create builder has been given an item
InitRound ==
  /\ IdleCodec /\ IdleQuery /\ IdleStream /\ IdleCase
  /\ getKeySet = FALSE /\ queryBuilder = "none" /\ opsLog = <<>>
  /\ createItemSet = TRUE
  /\ itemData \in {parsedItem(d) : d \in {i \in RoundItems : schemaParses(i)}}
  /\ updateKey = NoUpdateKey /\ updateUpdates = NoUpdates /\ txWrites = <<>> /\ sent = <<>>
  /\ caseStyle \in CaseStyles
  /\ updateImpl = "operations"
  /\ InitRead
  /\ shape = PlainEntity
  /\ keyMeta \in BOOLEAN

\* no read builder has been given a key and none has executed
ReadersIdle == OnlyBuilder("batch") /\ batchKeys = <<>> /\ readResult = NoRead

\* the update and transaction builders have not been used
WritersIdle == ~updateKey.set /\ ~updateUpdates.set /\ txWrites = <<>>

\* the item is created first and one read builder may follow; the update and
\* the transaction builder run on their own
NextRound ==
  \/ \E d \in RoundItems :
       /\ sent = <<>> /\ ReadersIdle /\ WritersIdle
       /\ createItem(d) /\ UNCHANGED <<codecVars, queryVars, streamVars, readVars, caseVars>>
  \/ \E o \in ClientOutcomes, e \in ClientErrors :
       /\ sent = <<>> /\ ReadersIdle /\ WritersIdle
       /\ createExec(o, e) /\ UNCHANGED <<codecVars, queryVars, streamVars, caseVars>>
  \/ \E op \in {"get", "delete"}, k \in KeyInputs :
       /\ readResult = NoRead /\ OnlyBuilder(op) /\ WritersIdle
       /\ keyCall(op, k) /\ UNCHANGED <<codecVars, queryVars, streamVars, caseVars>>
  \/ \E k \in KeyInputs :
       /\ readResult = NoRead /\ OnlyBuilder("query") /\ WritersIdle
       /\ pkCall(k) /\ UNCHANGED <<codecVars, queryVars, streamVars, caseVars>>
  \/ \E ks \in SeqsUpTo(KeyInputs, MaxItems) \ {<<>>} :
       /\ readResult = NoRead /\ OnlyBuilder("batch") /\ WritersIdle
       /\ batchKeysCall(ks) /\ UNCHANGED <<codecVars, queryVars, streamVars, caseVars>>
  \/ \E o \in ClientOutcomes, e \in ClientErrors :
       /\ readResult = NoRead /\ OnlyBuilder("get") /\ WritersIdle
       /\ getItemExec(o, e) /\ UNCHANGED <<codecVars, queryVars, streamVars, caseVars>>
  \/ \E o \in ClientOutcomes, e \in ClientErrors :
       /\ readResult = NoRead /\ OnlyBuilder("delete") /\ WritersIdle
       /\ deleteExec(o, e) /\ UNCHANGED <<codecVars, queryVars, streamVars, caseVars>>
  \/ \E o \in ClientOutcomes, e \in ClientErrors :
       /\ readResult = NoRead /\ OnlyBuilder("batch") /\ WritersIdle
       /\ batchExec(o, e) /\ UNCHANGED <<codecVars, queryVars, streamVars, caseVars>>
  \/ \E o \in ClientOutcomes, e \in ClientErrors :
       /\ readResult = NoRead /\ OnlyBuilder("query") /\ WritersIdle
       /\ queryItemsExec(o, e) /\ UNCHANGED <<codecVars, queryVars, streamVars, caseVars>>
  \/ \E k \in KeyInputs :
       /\ sent = <<>> /\ ReadersIdle /\ txWrites = <<>>
       /\ updateKeyCall(k) /\ UNCHANGED <<codecVars, queryVars, streamVars, readVars, caseVars>>
  \/ \E u \in RoundUpdates :
       /\ sent = <<>> /\ ReadersIdle /\ txWrites = <<>>
       /\ set(u) /\ UNCHANGED <<codecVars, queryVars, streamVars, readVars, caseVars>>
  \/ \E o \in ClientOutcomes, e \in ClientErrors :
       /\ sent = <<>> /\ ReadersIdle /\ txWrites = <<>>
       /\ updateExec(o, e) /\ UNCHANGED <<codecVars, queryVars, streamVars, readVars, caseVars>>
  \/ \E d \in ItemInputs :
       /\ sent = <<>> /\ ReadersIdle /\ ~updateKey.set /\ ~updateUpdates.set
       /\ put(d) /\ UNCHANGED <<codecVars, queryVars, streamVars, readVars, caseVars>>
  \/ \E k \in KeyInputs, u \in RoundUpdates :
       /\ sent = <<>> /\ ReadersIdle /\ ~updateKey.set /\ ~updateUpdates.set
       /\ update(k, u) /\ UNCHANGED <<codecVars, queryVars, streamVars, readVars, caseVars>>
  \/ \E o \in ClientOutcomes, e \in ClientErrors :
       /\ sent = <<>> /\ ReadersIdle /\ ~updateKey.set /\ ~updateUpdates.set
       /\ transactionExec(o, e) /\ UNCHANGED <<codecVars, queryVars, streamVars, readVars, caseVars>>

SpecRound == InitRound /\ [][NextRound]_vars

\* --- one builder configured, then used by exec() and by process() --------
\* a store of one page or of two, one item each
FramePages == {<<1>>, <<1, 1>>}

InitFrame ==
  /\ IdleCodec /\ InitBuilder /\ InitOps /\ IdleWrite /\ IdleRead /\ IdleCase
  /\ gsiConfig = NoGsi
  /\ storePages \in FramePages
  /\ keyKind \in {"object", "string"}
  /\ options = NoOptions
  /\ InitStream

NextFrame ==
  \/ \E v \in {Sc(1)} :
       spc = "idle" /\ sk("=", v, Undef) /\ UNCHANGED <<codecVars, streamVars, opsVars, writeVars, readVars, caseVars>>
  \/ \E v \in {Sc(1)} :
       spc = "idle" /\ filter("f", "=", v) /\ UNCHANGED <<codecVars, streamVars, opsVars, writeVars, readVars, caseVars>>
  \/ \E n \in {1} :
       spc = "idle" /\ requests = <<>> /\ limit(n) /\ UNCHANGED <<codecVars, streamVars, opsVars, writeVars, readVars, caseVars>>
  \/ \E dir \in {"ASC", "DESC"} :
       spc = "idle" /\ requests = <<>> /\ sortBy(dir) /\ UNCHANGED <<codecVars, streamVars, opsVars, writeVars, readVars, caseVars>>
  \/ \E c \in CursorInputs :
       spc = "idle" /\ cursor(c) /\ UNCHANGED <<codecVars, streamVars, opsVars, writeVars, readVars, caseVars>>
  \/ \E o \in Outcomes :
       spc = "idle" /\ Len(requests) < MaxExec /\ exec(o) /\ UNCHANGED <<codecVars, streamVars, opsVars, writeVars, readVars, caseVars>>
  \/ processStart /\ UNCHANGED <<codecVars, opsVars, writeVars, readVars, caseVars>>
  \/ \E o \in Outcomes : processFetch(o) /\ UNCHANGED <<codecVars, opsVars, writeVars, readVars, caseVars>>
  \/ processBatch /\ UNCHANGED <<codecVars, opsVars, writeVars, readVars, caseVars>>
  \/ \E it \in inflight : callbackDone(it) /\ UNCHANGED <<codecVars, opsVars, writeVars, readVars, caseVars>>
  \/ \E it \in inflight : callbackFail(it) /\ UNCHANGED <<codecVars, opsVars, writeVars, readVars, caseVars>>
  \/ processResume /\ UNCHANGED <<codecVars, opsVars, writeVars, readVars, caseVars>>
  \/ processPageEnd /\ UNCHANGED <<codecVars, opsVars, writeVars, readVars, caseVars>>

SpecFrame == InitFrame /\ [][NextFrame]_vars

\* --- process() with any caller-supplied concurrency ----------------------
DrainOptions ==
  {NoOptions} \cup {[given |-> TRUE, n |-> c] : c \in (-MaxConc)..MaxConc}

InitDrain ==
  /\ IdleCodec /\ InitBuilder /\ InitOps /\ IdleWrite /\ IdleRead /\ IdleCase
  /\ gsiConfig = NoGsi
  /\ storePages \in StorePages
  /\ keyKind = "object"
  /\ options \in DrainOptions
  /\ InitStream

NextDrain ==
  \/ processStart /\ UNCHANGED <<codecVars, opsVars, writeVars, readVars, caseVars>>
  \/ \E o \in Outcomes : processFetch(o) /\ UNCHANGED <<codecVars, opsVars, writeVars, readVars, caseVars>>
  \/ processBatch /\ UNCHANGED <<codecVars, opsVars, writeVars, readVars, caseVars>>
  \/ \E it \in inflight : callbackDone(it) /\ UNCHANGED <<codecVars, opsVars, writeVars, readVars, caseVars>>
  \/ \E it \in inflight : callbackFail(it) /\ UNCHANGED <<codecVars, opsVars, writeVars, readVars, caseVars>>
  \/ processResumeHeld /\ UNCHANGED <<codecVars, opsVars, writeVars, readVars, caseVars>>
  \/ processPageEnd /\ UNCHANGED <<codecVars, opsVars, writeVars, readVars, caseVars>>

SpecDrain == InitDrain /\ [][NextDrain]_vars

\* the store answers, every callback settles and the event loop runs every
\* continuation that is ready
SpecDrainFair == InitDrain /\ [][NextDrain]_vars /\ WF_vars(NextDrain)

\* --- key names through camelCase and back to snake_case ------------------
InitKeyCase ==
  /\ IdleCodec /\ IdleQuery /\ IdleStream /\ InitOps /\ IdleWrite /\ IdleRead
  /\ InitCase

NextCase ==
  transformKeys /\ UNCHANGED <<codecVars, queryVars, streamVars, opsVars, writeVars, readVars>>

SpecCase == InitKeyCase /\ [][NextCase]_vars

\* ========================================================================
\* Properties
\* ========================================================================
\* the request sent by exec number r
EAV(r) == requests[r].ExpressionAttributeValues
EAN(r) == requests[r].ExpressionAttributeNames
KeyClause(r, j) == requests[r].KeyConditionExpression[j + 1]
FilterClause(r, i) == requests[r].FilterExpression[i]
AllClauses(r) ==
  {requests[r].KeyConditionExpression[j] : j \in 1..Len(requests[r].KeyConditionExpression)}
    \cup {requests[r].FilterExpression[i] : i \in 1..Len(requests[r].FilterExpression)}

\* under placeholder ph the request defines value v
Reads(r, ph, v) == ph \in DOMAIN EAV(r) /\ EAV(r)[ph] = v

\* C1: for every template without adjacent placeholders and every parameter
\* object accepted by its schema, decoding the encoded key gives back an
\* object equal to the parameter object
C1_RoundTrip ==
  (cpc = "decoded" /\ Separated(tmpl)) => (decoded.defined /\ decoded.obj = params)

\* C2: in every request sent, each value placeholder used by a clause is
\* defined, ':pk' is the partition key, and every sort-key condition and
\* every filter reads back under its own placeholders the values supplied
C2_ValuePlaceholders ==
  \A r \in 1..Len(requests) :
    /\ Reads(r, ":pk", pkData)
    /\ \A c \in AllClauses(r) : \A k \in 1..Len(c.vals) : c.vals[k] \in DOMAIN EAV(r)
    /\ \A j \in 1..Len(skCalls) :
         /\ Reads(r, KeyClause(r, j).vals[1], skCalls[j].value)
         /\ (skCalls[j].operator = "between" /\ skCalls[j].value2 # Undef)
              => (/\ Len(KeyClause(r, j).vals) = 2
                  /\ Reads(r, KeyClause(r, j).vals[2], skCalls[j].value2))
    /\ \A i \in 1..Len(filters) :
         IF filters[i].operator = "IN"
         THEN \A k \in 1..Len(inValues(filters[i].value)) :
                Reads(r, FilterClause(r, i).vals[k], Sc(inValues(filters[i].value)[k]))
         ELSE Reads(r, FilterClause(r, i).vals[1], filters[i].value)

\* C3: in every request sent, no attribute has two name placeholders, every
\* sort-key clause names the effective sort attribute and every filter
\* clause names its own field (no placeholder is re-bound)
C3_NamePlaceholders ==
  \A r \in 1..Len(requests) :
    /\ \A a, b \in DOMAIN EAN(r) : EAN(r)[a] = EAN(r)[b] => a = b
    /\ EAN(r)[requests[r].KeyConditionExpression[1].name] = pkAttrOf(gsiConfig)
    /\ \A j \in 1..Len(skCalls) : EAN(r)[KeyClause(r, j).name] = skAttrOf(gsiConfig)
    /\ \A i \in 1..Len(filters) : EAN(r)[FilterClause(r, i).name] = filters[i].field

\* C4: once sk('between', v1) was called without a second value, exec
\* returns an error and sends no request
C4_BetweenRejected ==
  (\E j \in 1..Len(skCalls) : skCalls[j].operator = "between" /\ skCalls[j].value2 = Undef)
    => (requests = <<>> /\ result.status # "ok")

\* C5: every sk('between', v1, v2) call compiles to one BETWEEN clause with
\* two distinct value placeholders, the first reading v1 and the second v2,
\* whatever other sk() calls were made
C5_BetweenTwoValues ==
  \A r \in 1..Len(requests) : \A j \in 1..Len(skCalls) :
    (skCalls[j].operator = "between" /\ skCalls[j].value2 # Undef)
      => LET c == KeyClause(r, j)
         IN /\ c.fn = "between"
            /\ Len(c.vals) = 2
            /\ c.vals[1] # c.vals[2]
            /\ Reads(r, c.vals[1], skCalls[j].value)
            /\ Reads(r, c.vals[2], skCalls[j].value2)

\* C6: when process resolves, the processor was invoked exactly once for
\* every item of every page the store holds
C6_WholeResultSet ==
  spc = "done" => \A it \in DOMAIN calls : calls[it] = 1

C8_NoOverlap ==
  [][Len(requests') > Len(requests) => inflight = {}]_vars

\* a second page request was issued after items of the first were processed
C8_Witness ==
  /\ Len(requests) >= 2
  /\ \E it \in DOMAIN calls : calls[it] >= 1

C10_NeverThrows ==
  \A i \in 1..Len(opsLog) :
    /\ opsLog[i].how # "threw"
    /\ opsLog[i].error # "" => (opsLog[i].how = "pair" /\ opsLog[i].error \in SkadiErrors)

\* C12: encoding a parameter object that lacks a placeholder of the
\* template, or under a schema that does not declare it, fails with a
\* MissingParameterError and produces no key string
C12_MissingParameter ==
  (cpc \in {"encoded", "threw"}
     /\ \E n \in PhNames(tmpl) : n \notin DOMAIN params \/ n \notin DOMAIN schema) =>
    (cpc = "threw" /\ codecError = "MissingParameterError")

\* the string s is the template's literals in place, with at least one
\* character at every placeholder, and nothing before or after
Matches(T, s) ==
  \E cuts \in [0..Len(T) -> 0..Len(s)] :
    /\ cuts[0] = 0
    /\ cuts[Len(T)] = Len(s)
    /\ \A i \in 1..Len(T) :
         IF T[i].ph THEN cuts[i] > cuts[i - 1]
         ELSE cuts[i] = cuts[i - 1] + 1 /\ s[cuts[i]] = T[i].x

\* C13 (as stated): a stored string that does not match the template decodes
\* to undefined and deserialize returns the field as that same string
C13_OriginalString ==
  (cpc = "deserialized" /\ ~Matches(tmpl, keyStr)) =>
    (~decoded.defined /\ fieldValue = StringField(keyStr))

\* C13 (amended): a stored string that does not match the template decodes
\* to undefined and rehydration leaves it alone, so deserialize returns that
\* same string unless the string reads as a date, which it returns as a Date
C13_UndefinedKeepsField ==
  (cpc = "deserialized" /\ ~Matches(tmpl, keyStr)) =>
    /\ ~decoded.defined
    /\ fieldValue = IF isDate(Str(keyStr)) THEN DateField(keyStr) ELSE StringField(keyStr)

\* a string with text after the template's last literal was deserialized
C13_Witness ==
  /\ cpc = "deserialized"
  /\ tmpl = <<Ph("x"), Lit("#")>>
  /\ keyStr = <<"a", "#", "a">>
  /\ ~Matches(tmpl, keyStr)
  /\ fieldValue = StringField(keyStr)

\* C14: when a stored string matches the template and its captures fail the
\* parameter schema, decoding yields every placeholder's capture as the
\* string that was captured
C14_RawFallback ==
  (cpc = "deserialized" /\ Matches(tmpl, keyStr)
     /\ ~paramSchemaParse(schema, rawObj(tmpl, regexExec(tmpl, keyStr).caps)).ok) =>
    /\ decoded.defined
    /\ DOMAIN decoded.obj = PhNames(tmpl)
    /\ \A n \in PhNames(tmpl) :
         /\ decoded.obj[n].t = "string"
         /\ decoded.obj[n] = rawObj(tmpl, regexExec(tmpl, keyStr).caps)[n]

\* the text token i of the template contributes to the key, and where it starts
Seg(i) == IF tmpl[i].ph THEN String(params[tmpl[i].x]) ELSE <<tmpl[i].x>>
RECURSIVE Off(_)
Off(i) == IF i = 1 THEN 0 ELSE Off(i - 1) + Len(Seg(i - 1))

\* C15: the encoded key is the template read left to right with every
\* literal kept in place and every placeholder occurrence replaced by the
\* string of its parameter; no placeholder text remains
C15_EveryPlaceholderReplaced ==
  cpc \in {"encoded", "decoded"} =>
    /\ Len(keyStr) = Off(Len(tmpl) + 1)
    /\ \A i \in 1..Len(tmpl) :
         SubSeq(keyStr, Off(i) + 1, Off(i) + Len(Seg(i))) = Seg(i)
    /\ \A j \in 1..Len(keyStr) : keyStr[j] \in Chars \cup DigitChars

\* "a#{x}" with x = "a" was encoded to "a#a"
C15_Witness ==
  /\ cpc = "encoded"
  /\ tmpl = <<Lit("a"), Lit("#"), Ph("x")>>
  /\ params["x"] = Str(<<"a">>)
  /\ keyStr = <<"a", "#", "a">>

\* the attribute k of the table written with value v: every entity attribute
\* stored under that name accepts the value
WireAccepts(k, v) ==
  \A f \in DOMAIN EntityAttributes :
    caseFunctions(caseStyle, f) = k => v.t = EntityAttributes[f]

ItemValid(item) == \A i \in 1..Len(item) : WireAccepts(item[i].k, item[i].v)

UpdateValid(u) ==
  \A ph \in DOMAIN u.ExpressionAttributeNames :
    WireAccepts(u.ExpressionAttributeNames[ph],
                u.ExpressionAttributeValues[":" \o u.ExpressionAttributeNames[ph]])

\* C11: every request sent to the store writes only attribute values the
\* entity schema accepts: the item of a create, the fields of an update, and
\* every put and update of a transaction
C11_ValidatedBeforeSend ==
  \A r \in 1..Len(sent) :
    /\ sent[r].cmd = "PutCommand" => ItemValid(sent[r].Item)
    /\ sent[r].cmd = "UpdateCommand" => UpdateValid(sent[r].Update)
    /\ sent[r].cmd = "TransactWriteCommand" =>
         \A w \in 1..Len(sent[r].TransactItems) :
           /\ ItemValid(sent[r].TransactItems[w].Item)
           /\ UpdateValid(sent[r].TransactItems[w].Update)

\* C16: in every request sent, every IN filter on a field with N values is
\* the clause '#field IN (:field_0, ..., :field_{N-1})': N distinct value
\* placeholders of which the i-th reads the i-th value, and the name
\* placeholder '#field' naming the field
C16_InExpansion ==
  \A r \in 1..Len(requests) : \A i \in 1..Len(filters) :
    filters[i].operator = "IN" =>
      LET c == FilterClause(r, i)
          xs == inValues(filters[i].value)
      IN /\ c.fn = "in"
         /\ c.name = "#" \o filters[i].field
         /\ EAN(r)[c.name] = filters[i].field
         /\ Len(c.vals) = Len(xs)
         /\ \A k \in 1..Len(xs) :
              /\ c.vals[k] = ":" \o filters[i].field \o "_" \o ToString(k - 1)
              /\ \A m \in 1..Len(xs) : c.vals[k] = c.vals[m] => k = m
              /\ Reads(r, c.vals[k], Sc(xs[k]))

\* C17: every request sent starts its key condition with '#pk = :pk'; without
\* an index '#pk' names 'pk' and '#sk' names 'sk'; with an index '#pk' names
\* the index's partition attribute, '#sk' its declared sort attribute, and no
\* name placeholder names 'pk' or 'sk'
C17_EffectiveKeyAttributes ==
  \A r \in 1..Len(requests) :
    /\ requests[r].KeyConditionExpression[1] = Clause("cmp", "=", "#pk", <<":pk">>)
    /\ IF ~gsiConfig.set
       THEN /\ EAN(r)["#pk"] = "pk"
            /\ "#sk" \in DOMAIN EAN(r) => EAN(r)["#sk"] = "sk"
       ELSE /\ EAN(r)["#pk"] = gsiConfig.partitionKey
            /\ "#sk" \in DOMAIN EAN(r) => EAN(r)["#sk"] = gsiConfig.sortKey
            /\ \A ph \in DOMAIN EAN(r) : EAN(r)[ph] \notin {"pk", "sk"}

\* C18: getGsiByAlias finds exactly the configured aliases, and every
\* index(alias) call that did not return a builder failed with a
\* ConfigurationError
C18_UnknownAliasIsConfigurationError ==
  /\ \A al \in Aliases :
       IF \E g \in Gsis : g.alias = al
       THEN getGsiByAlias(al).set /\ getGsiByAlias(al).alias = al
       ELSE ~getGsiByAlias(al).set
  /\ \A i \in 1..Len(opsLog) :
       (opsLog[i].op = "query.index" /\ opsLog[i].how # "returned") =>
         opsLog[i].error = "ConfigurationError"

\* the update request sent and the fields set() received
SentUpdate == sent[1].Update
Supplied == updateUpdates.entries

\* the name a supplied field is written under, and the value written for it
WireStyle == IF updateImpl = "operations" THEN caseStyle ELSE "none"
WireName(i) == caseFunctions(WireStyle, Supplied[i].k)
WireValue(i) ==
  IF updateImpl = "operations" THEN marshallWithDateConversion(Supplied[i].v)
  ELSE Supplied[i].v

\* positions of the first and of the last supplied field written under k
FirstOf(k) == CHOOSE i \in 1..Len(Supplied) :
                WireName(i) = k /\ \A j \in 1..Len(Supplied) : WireName(j) = k => i <= j
LastOf(k) == CHOOSE i \in 1..Len(Supplied) :
               WireName(i) = k /\ \A j \in 1..Len(Supplied) : WireName(j) = k => j <= i

C20_CauseIsOriginal ==
  \A i \in 1..Len(opsLog) :
    opsLog[i].thrown # "" =>
      /\ opsLog[i].how = "pair"
      /\ opsLog[i].error = "DynamoOperationError"
      /\ opsLog[i].cause = ErrorObject(opsLog[i].thrown)

\* C22: a get or delete whose builder holds no complete key (key() never
\* called, or called with data lacking the sort-key parameters of a schema
\* that has a sort key) answers [null, MissingKeyError] and sends nothing
CompleteKey(op) ==
  /\ builderKey[op].set
  /\ hasField(shape, "sk") => hasKey(builderKey[op].entries, "sk")

C22_IncompleteKeyRejected ==
  \A op \in {"get", "delete"} :
     (opsLog # <<>> /\ opsLog[Len(opsLog)].op = op \o ".exec" /\ ~CompleteKey(op))
       => /\ opsLog[Len(opsLog)].how = "pair"
          /\ opsLog[Len(opsLog)].error = "MissingKeyError"
          /\ sent = <<>>

\* C21: every request handed to the store client belongs to an exec() call
\* of its own: a get, create, update, delete, query, batch-get or
\* transaction exec sends at most one request, whether the client answers or
\* throws
ExecOps ==
  {"get.exec", "create.exec", "update.exec", "delete.exec", "query.exec", "batch.exec",
   "transaction.exec"}

C21_OneRequestPerExec ==
  Len(sent) <= Cardinality({i \in 1..Len(opsLog) : opsLog[i].op \in ExecOps})

\* two builders have executed, the second one against a client that threw
C21_Witness ==
  /\ Len(sent) = 2
  /\ opsLog[Len(opsLog)].op \in ExecOps
  /\ opsLog[Len(opsLog)].thrown \in ClientErrors

\* the last call was an exec() of a read builder that got an answer from
\* the store
Answered(op) ==
  /\ opsLog # <<>>
  /\ opsLog[Len(opsLog)].op = op \o ".exec"
  /\ opsLog[Len(opsLog)].thrown = ""
  /\ readResult.status \in {"ok", "error"}
  /\ readResult.error # "MissingKeyError"

\* the items the store answered with
Response(op) ==
  IF op = "batch" THEN storeBatchGet(table, batchKeys)
  ELSE storeGet(table, builderKey[op].entries)

\* C23: deserialize hands every key field of the schema built by a zdynamo
\* key helper to the caller as its parameter object, whatever the name of
\* the field (pk, sk, gsi_1_pk): keys to camelCase first, then the key
\* fields rehydrated, then dates
C23_KeyFieldsRehydrated ==
  \A op \in {"get", "query", "batch"} :
     Answered(op) =>
       \A n \in 1..Len(Response(op)), i \in 1..Len(shape) :
          shape[i].key =>
            LET item == deserializeItem(Response(op)[n], shape, keyMeta)
            IN hasKey(item, shape[i].name) /\ valueOf(item, shape[i].name).kind = "object"

\* C25: when one of the items of a query or batch-get response fails the
\* schema, exec returns [null, EntityValidationError with the issues] and no
\* item at all
InvalidItem(it) == ~schemaParse(deserializeItem(it, shape, keyMeta), shape).ok

C25_AllOrNothing ==
  \A op \in {"query", "batch"} :
     (Answered(op) /\ \E n \in 1..Len(Response(op)) : InvalidItem(Response(op)[n]))
       => /\ readResult.status = "error"
          /\ readResult.error = "EntityValidationError"
          /\ readResult.issues # {}
          /\ readResult.items = <<>>

\* a response of several items, some valid and some not, was read
C25_Witness ==
  \E op \in {"query", "batch"} :
     /\ Answered(op)
     /\ Len(Response(op)) > 1
     /\ \E n \in 1..Len(Response(op)) : InvalidItem(Response(op)[n])
     /\ \E n \in 1..Len(Response(op)) : ~InvalidItem(Response(op)[n])
     /\ readResult.items = <<>>

\* C26: after a successful create().item(x).exec(), get().key(k).exec() and
\* query().pk(k).exec() with the key parameters of x return the item, in
\* every case style of the table
Created ==
  \E i \in 1..Len(opsLog) : opsLog[i] = Pair("create.exec", "")

C26_ReadsWhatWasWritten ==
  \A op \in {"get", "query"} :
     (/\ Created
      /\ opsLog[Len(opsLog)].op = op \o ".exec"
      /\ opsLog[Len(opsLog)].thrown = ""
      /\ builderKey[op].set
      /\ valueOf(builderKey[op].entries, "pk") = valueOf(itemData, "pk"))
       => /\ readResult.status = "ok"
          /\ readResult.items = <<itemData>>

\* keys of an object, in order
keysOf(es) == [i \in 1..Len(es) |-> es[i].k]

\* no two keys of the object become one key under camelCase or on the way back
NoCollision(es) ==
  /\ Len(transformObjectKeys(es, "camelCase")) = Len(es)
  /\ Len(transformObjectKeys(transformObjectKeys(es, "camelCase"), "snakeCase")) = Len(es)

\* C24: for every object whose keys do not collide after transformation,
\* converting its keys to camelCase and then to snake_case reproduces exactly
\* the original key names, with the values unchanged
C24_KeyCaseRoundTrip ==
  (keysOut.done /\ NoCollision(keysIn)) => keysOut.snake = keysIn

\* C27: a query built through index(alias) is sent with a defined index name,
\* for every index definition accepted by Table.gsis; a request that names an
\* index's key attributes never lacks the index name
C27_IndexNameSent ==
  \A r \in 1..Len(requests) :
     gsiConfig.set =>
       /\ requests[r].IndexName # ""
       /\ requests[r].IndexName = gsiConfig.indexName

\* C28: an update with no fields to set is rejected before any network call:
\* after set({}) exec sends nothing, so no UpdateCommand is ever sent whose
\* UpdateExpression is 'SET ' with zero assignments
C28_EmptyUpdateRejected ==
  \A i \in 1..Len(sent) :
     sent[i].cmd = "UpdateCommand" => Len(sent[i].Update.UpdateExpression) > 0

\* a request with its start key left out
WithoutStartKey(req) == [req EXCEPT !.ExclusiveStartKey = NoKey]

\* C29: exec does not change what the builder has accumulated: a step that
\* sends a request leaves the conditions, filters, limit, sort direction and
\* partition value as they were (exec also leaves the cursor), the start key
\* it sends is the one the cursor determines, and the request differs from
\* the previous one, sent by exec or by stream().process, in its start key
\* at most
C29_ExecLeavesBuilder ==
  [][Len(requests') > Len(requests) =>
       /\ UNCHANGED <<conditions, filters, skCalls, gsiConfig, pkData, limitValue, ascending>>
       /\ spc = "idle" => UNCHANGED cursorValue
       /\ requests'[Len(requests')].ExclusiveStartKey = exclusiveStartKey(cursorValue')
       /\ requests # <<>> =>
            WithoutStartKey(requests'[Len(requests')])
              = WithoutStartKey(requests[Len(requests)])]_vars

\* two exec calls with the same cursor on a builder holding a condition, a
\* filter, a limit and a descending sort sent identical requests
C29_Witness ==
  /\ spc = "idle"
  /\ Len(requests) = 2
  /\ requests[1] = requests[2]
  /\ conditions # <<>> /\ filters # <<>>
  /\ limitValue # 0 /\ ~ascending

\* C30: stream().process terminates: with finitely many pages and callbacks
\* that complete, process eventually resolves or rejects, for every
\* caller-supplied concurrency including 0 and negative numbers, and the
\* processor is invoked at most once per item
C30_ProcessTerminates ==
  /\ <>(spc \in {"done", "rejected"})
  /\ [](\A it \in DOMAIN calls : calls[it] <= 1)

====
